---- MODULE Spec2Model ----
(***************************************************************************)
(* Agent_Nexus: the agent loop of llm_tools/llm_handler.py (LLMHandler)    *)
(* over the canonical conversation of llm_tools/message_handler.py         *)
(* (MessageHandler).  The driving thread runs _process_interaction; the    *)
(* worker threads of the per-turn ThreadPoolExecutor run _execute_tool.    *)
(***************************************************************************)
EXTENDS Integers, Sequences, FiniteSets, TLC

(***************************************************************************)
(* Bounds of the model.                                                    *)
(***************************************************************************)
\* once this many messages were added to the Conversation in a run, the caller
\* sends no further message and the model requests no further tool call (the
\* replies of a turn already dispatched are always appended)
MaxMessages == 5
\* the number of messages the application adds by calling MessageHandler itself
MaxDirect == 4

(***************************************************************************)
(* Input sets.                                                             *)
(***************************************************************************)
\* the adapters set_model is called with (the handler is constructed with "A")
Apis == {"B"}
UserTexts == {"What is 2+3?"}
SystemPrompts == {"You compute sums.", "Be brief."}
ReplyTexts == {"hi"}
ToolInputs == {[a |-> 2, b |-> 3]}
\* what a failing backend raises out of generate
ApiErrors == {"api down"}

(***************************************************************************)
(* Python values a tool callable can produce.  Strings are TLA+ strings;   *)
(* an int carries its decimal string form, PyObj is a value json cannot    *)
(* serialize (a set, a datetime), a dict is a sequence of <<key, value>>.  *)
(***************************************************************************)
PyInt(n) == [t |-> "int", v |-> n]
PyStr(s) == [t |-> "str", s |-> s]
PyObj == [t |-> "obj"]
PyNone == [t |-> "none"]
PyBool(b) == [t |-> "bool", v |-> b]
PyDict(items) == [t |-> "dict", items |-> items]

IsDict(x) == x.t = "dict"

Digits == <<"0", "1", "2", "3", "4", "5", "6", "7", "8", "9">>

\* str(n) of a small non-negative int
IntStr(n) == Digits[n + 1]

\* Python's str(x) of a non-dict value
StrOf(x) ==
    CASE x.t = "int" -> IntStr(x.v)
      [] x.t = "str" -> x.s
      [] x.t = "obj" -> "set()"
      [] x.t = "none" -> "None"
      [] x.t = "bool" -> (IF x.v THEN "True" ELSE "False")
      [] OTHER -> "{...}"

\* json.dumps of one value inside a dict
JsonValue(x) ==
    CASE x.t = "int" -> IntStr(x.v)
      [] x.t = "str" -> "\"" \o x.s \o "\""
      [] OTHER -> "?"

RECURSIVE JsonItems(_)
JsonItems(items) ==
    IF items = <<>> THEN ""
    ELSE LET h == items[1]
             one == "\"" \o h[1] \o "\": " \o JsonValue(h[2])
         IN IF Len(items) = 1 THEN one
            ELSE one \o ", " \o JsonItems(Tail(items))

\* json.dumps(d) raises TypeError when a value is not serializable
JsonSerializable(d) == \A i \in 1..Len(d.items) : d.items[i][2].t \in {"int", "str"}

\* json.dumps(d) of a serializable dict
JsonDumps(d) == "{" \o JsonItems(d.items) \o "}"

(***************************************************************************)
(* Tool callables.  A callable has a __name__ (impl tells two callables of *)
(* one name apart).  On an invocation it returns its value (add returns    *)
(* the number a + b, multiply returns the mapping {"product": a * b}),     *)
(* returns a mapping holding a set, or raises Exception("boom").           *)
(***************************************************************************)
Functions ==
    { [name |-> "add", impl |-> "add#1"],
      [name |-> "multiply", impl |-> "multiply#1"] }

\* a second callable whose __name__ is add as well
AddAgain == [name |-> "add", impl |-> "add#2"]

\* the lists register_functions is called with
FunctionLists ==
    { <<[name |-> "add", impl |-> "add#1"], AddAgain>>,
      <<[name |-> "multiply", impl |-> "multiply#1"], [name |-> "add", impl |-> "add#1"]>> }

Behaviours == {"return", "set", "raise"}

\* further callables: one returns None, one a str, one a bool, one an empty mapping
OtherBehaviours == {"none", "text", "flag", "empty"}

\* func(**tool_input): what the call returns or raises
Call(func, input, does) ==
    CASE does = "return" /\ func.name = "add" ->
            [raised |-> FALSE, value |-> PyInt(input.a + input.b)]
      [] does = "return" /\ func.name # "add" ->
            [raised |-> FALSE, value |-> PyDict(<< <<"product", PyInt(input.a * input.b)>> >>)]
      [] does = "set" ->
            [raised |-> FALSE, value |-> PyDict(<< <<"seen", PyObj>> >>)]
      [] does = "none" -> [raised |-> FALSE, value |-> PyNone]
      [] does = "text" -> [raised |-> FALSE, value |-> PyStr("five")]
      [] does = "flag" -> [raised |-> FALSE, value |-> PyBool(TRUE)]
      [] does = "empty" -> [raised |-> FALSE, value |-> PyDict(<<>>)]
      [] OTHER -> [raised |-> TRUE, msg |-> "boom"]

(***************************************************************************)
(* Content blocks and messages.                                            *)
(***************************************************************************)
TextBlock(text) == [type |-> "text", text |-> text]
ToolUseBlock(id, name, input) == [type |-> "tool_use", id |-> id, name |-> name, input |-> input]

\* the tool_use blocks a response can carry
ToolUseBlocks ==
    { ToolUseBlock("t1", "add", x) : x \in ToolInputs }
        \cup { ToolUseBlock("t2", "multiply", x) : x \in ToolInputs }
Blocks == { TextBlock(s) : s \in ReplyTexts } \cup ToolUseBlocks

\* the contents a response can carry
RECURSIVE SeqsUpTo(_, _)
SeqsUpTo(S, n) ==
    IF n = 0 THEN { <<>> }
    ELSE LET shorter == SeqsUpTo(S, n - 1)
         IN shorter \cup { Append(s, x) : s \in { q \in shorter : Len(q) = n - 1 }, x \in S }

Contents == SeqsUpTo(Blocks, 2)
StopReasons == {"tool_use", "stop_sequence"}

RECURSIVE SelectType(_, _)
SelectType(content, type) ==
    IF content = <<>> THEN <<>>
    ELSE IF Head(content).type = type
         THEN <<Head(content)>> \o SelectType(Tail(content), type)
         ELSE SelectType(Tail(content), type)

(***************************************************************************)
(* MessageHandler (llm_tools/message_handler.py).  The argument of         *)
(* append_message is a Python str, dict or list:                           *)
(*   [py |-> "str", s |-> text], [py |-> "dict", d |-> record],            *)
(*   [py |-> "list", l |-> sequence of blocks], where a block that is not  *)
(*   a dict but a str is [py |-> "str", s |-> text].                       *)
(***************************************************************************)
ArgStr(s) == [py |-> "str", s |-> s]
ArgDict(d) == [py |-> "dict", d |-> d]
ArgList(l) == [py |-> "list", l |-> l]

SystemMessage(text) == [role |-> "system", content |-> <<TextBlock(text)>>]
ToolMessage(id, text) == [role |-> "tool", tool_call_id |-> id, content |-> <<TextBlock(text)>>]

\* block["type"] = "text" for a dict block without a type
WithType(block) ==
    IF "type" \in DOMAIN block THEN block
    ELSE [k \in DOMAIN block \cup {"type"} |-> IF k = "type" THEN "text" ELSE block[k]]

\* the keys of the dicts handed to append_message, in insertion order
KeyOrder == <<"type", "tool_call_id", "content", "text">>

RECURSIVE DictItems(_, _)
DictItems(d, keys) ==
    IF keys = <<>> THEN <<>>
    ELSE IF Head(keys) \in DOMAIN d
         THEN <<"'" \o Head(keys) \o "': '" \o d[Head(keys)] \o "'">> \o DictItems(d, Tail(keys))
         ELSE DictItems(d, Tail(keys))

RECURSIVE JoinWith(_, _)
\* sep.join(strings)
JoinWith(strings, sep) ==
    IF strings = <<>> THEN ""
    ELSE IF Len(strings) = 1 THEN strings[1]
         ELSE strings[1] \o sep \o JoinWith(Tail(strings), sep)

\* str(d) of a dict with str values
DictStr(d) == "{" \o JoinWith(DictItems(d, KeyOrder), ", ") \o "}"

\* lines 45-51: one element of a list argument
NormalizeBlock(block) ==
    IF "py" \in DOMAIN block THEN TextBlock(block.s) ELSE WithType(block)

\* lines 35-52: the content blocks of a message that is not a tool message
NormalizedBlocks(arg) ==
    CASE arg.py = "str" -> <<TextBlock(arg.s)>>
      [] arg.py = "dict" ->
           IF "type" \in DOMAIN arg.d THEN <<arg.d>>
           ELSE <<TextBlock(DictStr(arg.d))>>
      [] OTHER -> [i \in 1..Len(arg.l) |-> NormalizeBlock(arg.l[i])]

\* append_message that stores a malformed tool argument like any other content
AppendMessageLenient(msgs, role, arg) ==
    IF role = "tool" /\ arg.py = "dict" /\ "tool_call_id" \in DOMAIN arg.d
                     /\ "content" \in DOMAIN arg.d
    THEN [ok |-> TRUE,
          messages |-> Append(msgs, ToolMessage(arg.d.tool_call_id, arg.d.content))]
    ELSE [ok |-> TRUE,
          messages |-> Append(msgs, [role |-> role, content |-> NormalizedBlocks(arg)])]

\* append_message: the new message list, or the ValueError it raises
AppendMessage(msgs, role, arg) ==
    IF role = "tool"
    THEN IF arg.py = "dict" /\ "tool_call_id" \in DOMAIN arg.d /\ "content" \in DOMAIN arg.d
         THEN [ok |-> TRUE,
               messages |-> Append(msgs, ToolMessage(arg.d.tool_call_id, arg.d.content))]
         ELSE [ok |-> FALSE, messages |-> msgs]
    ELSE [ok |-> TRUE,
          messages |-> Append(msgs, [role |-> role, content |-> NormalizedBlocks(arg)])]

\* append_user_text
AppendUserText(msgs, text) == AppendMessage(msgs, "user", ArgStr(text)).messages

HasSystem(msgs) == \E i \in 1..Len(msgs) : msgs[i].role = "system"

FirstSystem(msgs) == CHOOSE i \in 1..Len(msgs) :
    /\ msgs[i].role = "system"
    /\ \A j \in 1..(i - 1) : msgs[j].role # "system"

\* the image files of the application: the paths that exist
ImageFiles == {"cat.png", "scan"}

\* mimetypes.guess_type(image_path)[0], "" for None
GuessType(image_path) == IF image_path \in {"cat.png", "gone.png"} THEN "image/png" ELSE ""

\* f.read(): the bytes of the image files
FileBytes(image_path) ==
    IF image_path = "cat.png" THEN <<137, 80, 78, 71>> ELSE <<255, 216>>

\* the base64 alphabet; a base64 text is the sequence of its characters
Base64Alphabet ==
    <<"A", "B", "C", "D", "E", "F", "G", "H", "I", "J", "K", "L", "M",
      "N", "O", "P", "Q", "R", "S", "T", "U", "V", "W", "X", "Y", "Z",
      "a", "b", "c", "d", "e", "f", "g", "h", "i", "j", "k", "l", "m",
      "n", "o", "p", "q", "r", "s", "t", "u", "v", "w", "x", "y", "z",
      "0", "1", "2", "3", "4", "5", "6", "7", "8", "9", "+", "/">>

RECURSIVE B64Encode(_)
\* base64.b64encode(img_bytes).decode("utf-8"): three bytes give four
\* characters of six bits each, the last group is padded with "="
B64Encode(bytes) ==
    LET ch(n) == Base64Alphabet[n + 1]
    IN IF bytes = <<>> THEN <<>>
       ELSE IF Len(bytes) = 1
            THEN LET n == bytes[1] * 65536
                 IN <<ch(n \div 262144), ch((n \div 4096) % 64), "=", "=">>
            ELSE IF Len(bytes) = 2
                 THEN LET n == bytes[1] * 65536 + bytes[2] * 256
                      IN <<ch(n \div 262144), ch((n \div 4096) % 64),
                           ch((n \div 64) % 64), "=">>
                 ELSE LET n == bytes[1] * 65536 + bytes[2] * 256 + bytes[3]
                      IN <<ch(n \div 262144), ch((n \div 4096) % 64),
                           ch((n \div 64) % 64), ch(n % 64)>>
                             \o B64Encode(SubSeq(bytes, 4, Len(bytes)))

\* an encoding that leaves the padding of the last group out
B64EncodeUnpadded(bytes) == SelectSeq(B64Encode(bytes), LAMBDA c : c # "=")

\* line 70: the encoded image
Encoded(img_bytes) == B64Encode(img_bytes)

\* encode_image_to_base64: open() raises for a missing file
EncodeImageToBase64(image_path) ==
    IF image_path \notin ImageFiles THEN [raised |-> TRUE]
    ELSE [raised |-> FALSE,
          media_type |-> (IF GuessType(image_path) = "" THEN "image/jpeg"
                          ELSE GuessType(image_path)),
          data |-> Encoded(FileBytes(image_path))]

\* append_image: the blocks handed to append_message ("" is no text_comment)
ImageBlocks(image_data, text_comment) ==
    LET image_block ==
            [type |-> "image",
             source |-> [type |-> "base64", media_type |-> image_data.media_type,
                         data |-> image_data.data]]
    IN IF text_comment # "" THEN <<image_block, TextBlock(text_comment)>>
       ELSE <<image_block>>

\* set_system_prompt that overwrites whatever message is first
SetSystemPromptOverwrite(msgs, text) ==
    IF msgs = <<>> THEN <<SystemMessage(text)>>
    ELSE [msgs EXCEPT ![1] = SystemMessage(text)]

\* set_system_prompt that inserts at 0 also when a system message exists
SetSystemPromptInsert(msgs, text) == <<SystemMessage(text)>> \o msgs

\* set_system_prompt: replace the first system message in place, else insert at 0
SetSystemPromptMsgs(msgs, text) ==
    IF HasSystem(msgs)
    THEN [msgs EXCEPT ![FirstSystem(msgs)].content = <<TextBlock(text)>>]
    ELSE <<SystemMessage(text)>> \o msgs

(***************************************************************************)
(* LLMHandler helpers (llm_tools/llm_handler.py).                          *)
(***************************************************************************)
ErrorData(text) == PyDict(<< <<"error", PyStr(text)>> >>)

\* _execute_tool without the wrapping of line 97: the payload is the raw value
ExecuteToolUnwrapped(registered, tool_id, tool_name, tool_input, does) ==
    LET block(data) == [type |-> "tool_result", tool_use_id |-> tool_id, data |-> data]
    IN IF tool_name \notin DOMAIN registered
       THEN block(ErrorData("Unknown tool '" \o tool_name \o "'"))
       ELSE LET r == Call(registered[tool_name], tool_input, does)
            IN IF r.raised
               THEN block(ErrorData("Error executing " \o tool_name \o ": " \o r.msg))
               ELSE block(r.value)

\* _execute_tool answering an unknown name with a bare string instead of {"error": ...}
ExecuteToolBareUnknown(registered, tool_id, tool_name, tool_input, does) ==
    LET block(data) == [type |-> "tool_result", tool_use_id |-> tool_id, data |-> data]
    IN IF tool_name \notin DOMAIN registered
       THEN block(PyStr("Unknown tool '" \o tool_name \o "'"))
       ELSE LET r == Call(registered[tool_name], tool_input, does)
            IN IF r.raised
               THEN block(ErrorData("Error executing " \o tool_name \o ": " \o r.msg))
               ELSE IF ~IsDict(r.value)
                    THEN block(PyDict(<< <<"result", PyStr(StrOf(r.value))>> >>))
                    ELSE block(r.value)

\* _execute_tool wrapping every value, mappings too
ExecuteToolWrapsAll(registered, tool_id, tool_name, tool_input, does) ==
    LET block(data) == [type |-> "tool_result", tool_use_id |-> tool_id, data |-> data]
    IN IF tool_name \notin DOMAIN registered
       THEN block(ErrorData("Unknown tool '" \o tool_name \o "'"))
       ELSE LET r == Call(registered[tool_name], tool_input, does)
            IN IF r.raised
               THEN block(ErrorData("Error executing " \o tool_name \o ": " \o r.msg))
               ELSE block(PyDict(<< <<"result", PyStr(StrOf(r.value))>> >>))

\* _execute_tool: the result block a worker returns
ExecuteTool(registered, tool_id, tool_name, tool_input, does) ==
    LET block(data) == [type |-> "tool_result", tool_use_id |-> tool_id, data |-> data]
    IN IF tool_name \notin DOMAIN registered
       THEN block(ErrorData("Unknown tool '" \o tool_name \o "'"))
       ELSE LET r == Call(registered[tool_name], tool_input, does)
            IN IF r.raised
               THEN block(ErrorData("Error executing " \o tool_name \o ": " \o r.msg))
               ELSE IF ~IsDict(r.value)
                    THEN block(PyDict(<< <<"result", PyStr(StrOf(r.value))>> >>))
                    ELSE block(r.value)

\* line 79: json.dumps(data) for a dict, str(data) otherwise
ResultStr(data) ==
    IF IsDict(data)
    THEN IF JsonSerializable(data)
         THEN [raised |-> FALSE, str |-> JsonDumps(data)]
         ELSE [raised |-> TRUE, str |-> ""]
    ELSE [raised |-> FALSE, str |-> StrOf(data)]

\* a filter that lets every tool_use block through
ToProcessAll(tool_uses, processed) == tool_uses

RECURSIVE ToProcess(_, _)
\* line 66: the tool_use blocks whose id is not in processed_tool_ids
ToProcess(tool_uses, processed) ==
    IF tool_uses = <<>> THEN <<>>
    ELSE IF Head(tool_uses).id \notin processed
         THEN <<Head(tool_uses)>> \o ToProcess(Tail(tool_uses), processed)
         ELSE ToProcess(Tail(tool_uses), processed)

RECURSIVE JoinStrings(_)
\* " ".join(strings)
JoinStrings(strings) ==
    IF strings = <<>> THEN ""
    ELSE IF Len(strings) = 1 THEN strings[1]
         ELSE strings[1] \o " " \o JoinStrings(Tail(strings))

RECURSIVE EveryText(_)
\* block.get("text","") for block in text_blocks, without the filter
EveryText(text_blocks) ==
    IF text_blocks = <<>> THEN <<>>
    ELSE <<(IF "text" \in DOMAIN Head(text_blocks) THEN Head(text_blocks).text ELSE "")>>
             \o EveryText(Tail(text_blocks))

RECURSIVE NonEmptyTexts(_)
\* block.get("text","") for block in text_blocks if block.get("text")
NonEmptyTexts(text_blocks) ==
    IF text_blocks = <<>> THEN <<>>
    ELSE IF "text" \notin DOMAIN Head(text_blocks) \/ Head(text_blocks).text = ""
         THEN NonEmptyTexts(Tail(text_blocks))
         ELSE <<Head(text_blocks).text>> \o NonEmptyTexts(Tail(text_blocks))

\* line 88: the final answer
FinalAnswer(text_blocks) == JoinStrings(NonEmptyTexts(text_blocks))

\* a future that has no result yet
NoResult == [type |-> "none"]

\* lines 70-74: one submitted future per call to process
Submit(calls) ==
    [i \in 1..Len(calls) |->
        [id |-> calls[i].id, name |-> calls[i].name, input |-> calls[i].input,
         state |-> "pending", does |-> "", impl |-> "", result |-> NoResult]]

\* a registration that keeps the callable already registered under the name
RegisterKeepFirst(registered, func) ==
    [n \in DOMAIN registered \cup {func.name} |->
        IF n \in DOMAIN registered THEN registered[n] ELSE func]

\* line 24: self.registered_functions[func.__name__] = func
Register(registered, func) ==
    [n \in DOMAIN registered \cup {func.name} |->
        IF n = func.name THEN func ELSE registered[n]]

RECURSIVE RegisterAll(_, _)
\* lines 27-28: register_function for each element of the list, in order
RegisterAll(registered, functions) ==
    IF functions = <<>> THEN registered
    ELSE RegisterAll(Register(registered, Head(functions)), Tail(functions))

\* the callable _execute_tool invokes for a name ("" when there is none)
Invoked(registered, tool_name) ==
    IF tool_name \in DOMAIN registered THEN registered[tool_name].impl ELSE ""

(***************************************************************************)
(* Provider adapters (llm_api/*.py).  A Python None is "" where a str is   *)
(* expected.                                                               *)
(***************************************************************************)
Adapters == {"anthropic", "openai", "groq", "gemini"}

\* s.strip(), for the strings of the model
Strip(s) == IF s \in {"", " "} THEN "" ELSE s

RECURSIVE TextsOf(_)
\* b.get("text","") for b in cblocks if b["type"]=="text"
TextsOf(cblocks) ==
    IF cblocks = <<>> THEN <<>>
    ELSE IF Head(cblocks).type = "text"
         THEN <<Head(cblocks).text>> \o TextsOf(Tail(cblocks))
         ELSE TextsOf(Tail(cblocks))

RECURSIVE ConvertFrom(_, _)
\* _convert_messages of the Anthropic and the Gemini adapter: the loop over the
\* messages, acc is (system_prompt, normal_msgs) so far
ConvertFrom(msgs, acc) ==
    IF msgs = <<>> THEN acc
    ELSE LET msg == Head(msgs)
             txt == Strip(JoinWith(TextsOf(msg.content), " "))
         IN CASE msg.role = "system" ->
                   ConvertFrom(Tail(msgs), [acc EXCEPT !.system_prompt = txt])
              [] msg.role = "tool" ->
                   ConvertFrom(Tail(msgs),
                       [acc EXCEPT !.normal_msgs = Append(@,
                           [role |-> "user",
                            content |-> (IF msg.tool_call_id # ""
                                         THEN "Tool result for " \o msg.tool_call_id
                                                  \o ": " \o txt
                                         ELSE txt)])])
              [] OTHER ->
                   ConvertFrom(Tail(msgs),
                       IF txt # ""
                       THEN [acc EXCEPT !.normal_msgs =
                                Append(@, [role |-> msg.role, content |-> txt])]
                       ELSE acc)

\* a conversion that inlines the tool results without their call id
ConvertMessagesUnlabelled(msgs) ==
    ConvertFrom([i \in 1..Len(msgs) |->
                    IF msgs[i].role = "tool" THEN [msgs[i] EXCEPT !.tool_call_id = ""]
                    ELSE msgs[i]],
                [system_prompt |-> "", normal_msgs |-> <<>>])

ConvertMessages(msgs) == ConvertFrom(msgs, [system_prompt |-> "", normal_msgs |-> <<>>])

\* json.dumps(block["input"]) of an input {a, b}
JsonOfInput(input) ==
    "{\"a\": " \o IntStr(input.a) \o ", \"b\": " \o IntStr(input.b) \o "}"

\* json.loads(arguments): the input, or the JSONDecodeError
JsonLoads(arguments) ==
    IF \E x \in ToolInputs : JsonOfInput(x) = arguments
    THEN [raised |-> FALSE, value |-> CHOOSE x \in ToolInputs : JsonOfInput(x) = arguments]
    ELSE [raised |-> TRUE]

RECURSIVE OpenAIParts(_)
\* lines 41-58: the text parts and tool calls of the blocks of one message
OpenAIParts(blocks) ==
    IF blocks = <<>> THEN [text_parts |-> <<>>, tool_calls |-> <<>>]
    ELSE LET block == Head(blocks)
             rest == OpenAIParts(Tail(blocks))
         IN CASE block.type = "text" ->
                   [rest EXCEPT !.text_parts = <<block.text>> \o @]
              [] block.type = "tool_use" ->
                   [rest EXCEPT !.tool_calls =
                       <<[id |-> block.id, type |-> "function",
                          function |-> [name |-> block.name,
                                        arguments |-> JsonOfInput(block.input)]]>> \o @]
              [] block.type = "image" ->
                   [rest EXCEPT !.text_parts = <<"[Image data omitted]">> \o @]
              [] OTHER -> rest

\* lines 23-72: one message in the OpenAI (and Groq) format
OpenAIMessage(msg) ==
    IF msg.role = "tool"
    THEN [role |-> "tool", tool_call_id |-> msg.tool_call_id,
          content |-> JoinWith(TextsOf(msg.content), " ")]
    ELSE LET parts == OpenAIParts(msg.content)
             text_content == Strip(JoinWith(parts.text_parts, " "))
         IN IF msg.role = "assistant" /\ parts.tool_calls # <<>>
            THEN IF text_content # ""
                 THEN [role |-> "assistant", content |-> text_content,
                       tool_calls |-> parts.tool_calls]
                 ELSE [role |-> "assistant", tool_calls |-> parts.tool_calls]
            ELSE [role |-> msg.role, content |-> text_content]

\* a conversion that leaves out the tool messages without id
ToOpenAIMessagesSkipping(msgs) ==
    LET kept == SelectSeq(msgs, LAMBDA msg : ~(msg.role = "tool" /\ msg.tool_call_id = ""))
    IN [raised |-> FALSE, messages |-> [i \in 1..Len(kept) |-> OpenAIMessage(kept[i])]]

\* _to_openai_messages / _to_groq_messages: ValueError on a tool message without id
ToOpenAIMessages(msgs) ==
    IF \E i \in 1..Len(msgs) : msgs[i].role = "tool" /\ msgs[i].tool_call_id = ""
    THEN [raised |-> TRUE, error |-> "ValueError"]
    ELSE [raised |-> FALSE, messages |-> [i \in 1..Len(msgs) |-> OpenAIMessage(msgs[i])]]

\* the request generate builds for the backend, or the exception raised before
\* any request is made
Request(adapter, msgs, tool_decls) ==
    CASE adapter = "anthropic" ->
           LET c == ConvertMessages(msgs)
           IN [raised |-> FALSE,
               request |-> IF tool_decls # <<>>
                           THEN [system |-> c.system_prompt, messages |-> c.normal_msgs,
                                 tools |-> tool_decls]
                           ELSE [system |-> c.system_prompt, messages |-> c.normal_msgs]]
      [] adapter = "gemini" ->
           LET gen_messages == ConvertMessages(msgs).normal_msgs
           IN IF gen_messages = <<>> THEN [raised |-> TRUE, error |-> "IndexError"]
              ELSE [raised |-> FALSE,
                    request |-> [history |-> <<>>,
                                 message |-> gen_messages[Len(gen_messages)].content]]
      [] OTHER ->
           LET c == ToOpenAIMessages(msgs)
           IN IF c.raised THEN c
              ELSE [raised |-> FALSE,
                    request |-> IF tool_decls # <<>>
                                THEN [messages |-> c.messages, tools |-> tool_decls,
                                      tool_choice |-> "auto"]
                                ELSE [messages |-> c.messages]]

\* a stop_reason that ignores the tool calls
StopReasonAlwaysStop(has_tool_calls) == "stop_sequence"

\* "tool_use" if has_tool_calls else "stop_sequence"
StopReasonOf(has_tool_calls) == IF has_tool_calls THEN "tool_use" ELSE "stop_sequence"

Returned(content, stop_reason) ==
    [kind |-> "returned", content |-> content, stop_reason |-> stop_reason]

RECURSIVE AnthropicBlocks(_)
\* anthropic_api.py lines 72-82: the content blocks of response.content
AnthropicBlocks(parts) ==
    IF parts = <<>> THEN <<>>
    ELSE LET block == Head(parts)
         IN IF block.type = "text" /\ Strip(block.text) # ""
            THEN <<TextBlock(Strip(block.text))>> \o AnthropicBlocks(Tail(parts))
            ELSE IF block.type = "tool_use"
                 THEN <<ToolUseBlock(block.id, block.name, block.input)>>
                          \o AnthropicBlocks(Tail(parts))
                 ELSE AnthropicBlocks(Tail(parts))

RECURSIVE GeminiBlocks(_)
\* gemini_api.py lines 170-181: a part is a text or a function call; the id of a
\* tool_use block is the name of the function
GeminiBlocks(parts) ==
    IF parts = <<>> THEN <<>>
    ELSE LET part == Head(parts)
         IN IF part.text # ""
            THEN <<TextBlock(Strip(part.text))>> \o GeminiBlocks(Tail(parts))
            ELSE IF part.function_call.name # ""
                 THEN <<ToolUseBlock(part.function_call.name, part.function_call.name,
                                     part.function_call.args)>> \o GeminiBlocks(Tail(parts))
                 ELSE GeminiBlocks(Tail(parts))

\* openai_api.py lines 93-108 (groq_api.py alike): the response of a message
OpenAIResponse(message) ==
    IF message.tool_calls # <<>>
    THEN IF \E i \in 1..Len(message.tool_calls) :
                JsonLoads(message.tool_calls[i].arguments).raised
         THEN [kind |-> "raised", error |-> "JSONDecodeError"]
         ELSE Returned([i \in 1..Len(message.tool_calls) |->
                           ToolUseBlock(message.tool_calls[i].id,
                                        message.tool_calls[i].name,
                                        JsonLoads(message.tool_calls[i].arguments).value)],
                       "tool_use")
    ELSE Returned(<<TextBlock(message.content)>>, "stop_sequence")

\* what generate returns for the reply of the backend
Normalized(adapter, backend_reply) ==
    CASE adapter = "anthropic" ->
           LET content_blocks == AnthropicBlocks(backend_reply.content)
               has_tool_calls ==
                   \E i \in 1..Len(backend_reply.content) :
                       backend_reply.content[i].type = "tool_use"
           IN Returned(content_blocks, StopReasonOf(has_tool_calls))
      [] adapter = "gemini" ->
           LET content_blocks == GeminiBlocks(backend_reply.parts)
               has_tool_calls ==
                   \E i \in 1..Len(backend_reply.parts) :
                       backend_reply.parts[i].text = ""
                           /\ backend_reply.parts[i].function_call.name # ""
           IN Returned(content_blocks, StopReasonOf(has_tool_calls))
      [] OTHER -> OpenAIResponse(backend_reply.message)

(***************************************************************************)
(* The typed schema tree of the Gemini adapter (gemini_api.py 12-83).  A   *)
(* JSON schema is a record with the entries it has; a content.Schema has   *)
(* every field, with the defaults of the message type where nothing was    *)
(* set (no required names, no enum values, no properties, no items, no     *)
(* description).                                                           *)
(***************************************************************************)
ContentTypes == {"STRING", "NUMBER", "BOOL", "ARRAY", "OBJECT"}

\* json_type.lower(), for the type names of the model
Lower(json_type) ==
    CASE json_type = "String" -> "string"
      [] json_type = "ARRAY" -> "array"
      [] OTHER -> json_type

\* lines 12-25
MapJsonTypeToContentType(json_type) ==
    LET t == Lower(json_type)
    IN CASE t = "string" -> "STRING"
         [] t = "number" -> "NUMBER"
         [] t = "boolean" -> "BOOL"
         [] t = "array" -> "ARRAY"
         [] t = "object" -> "OBJECT"
         [] OTHER -> "OBJECT"

\* parameters.get("type", parameters.get("type_", "object"))
SchemaType(parameters) ==
    IF "type" \in DOMAIN parameters THEN parameters.type
    ELSE IF "type_" \in DOMAIN parameters THEN parameters.type_
         ELSE "object"

\* a conversion that carries no required names over
RequiredNone(parameters) == <<>>

\* lines 36-38: parameters.get("required", [])
RequiredFields(parameters) ==
    IF "required" \in DOMAIN parameters THEN parameters.required ELSE <<>>

\* a content.Schema that has no items
NoItems == [unset |-> TRUE]

RECURSIVE ConvertSchemaToGemini(_)
\* lines 27-62
ConvertSchemaToGemini(parameters) ==
    LET ctype == MapJsonTypeToContentType(SchemaType(parameters))
        props == IF "properties" \in DOMAIN parameters THEN parameters.properties
                 ELSE [n \in {} |-> n]
    IN [type |-> ctype,
        required |-> RequiredFields(parameters),
        enum |-> IF "enum" \in DOMAIN parameters THEN parameters.enum ELSE <<>>,
        properties |-> [prop_name \in DOMAIN props |-> ConvertSchemaToGemini(props[prop_name])],
        items |-> IF ctype = "ARRAY" /\ "items" \in DOMAIN parameters
                     /\ DOMAIN parameters.items # {}
                  THEN ConvertSchemaToGemini(parameters.items)
                  ELSE NoItems,
        description |-> IF "description" \in DOMAIN parameters THEN parameters.description
                        ELSE ""]

\* lines 64-83: convert_tool_schema_to_gemini, the declarations of the one Tool
ConvertToolSchemaToGemini(tools_schema) ==
    [i \in 1..Len(tools_schema) |->
        LET function_details == tools_schema[i].function
        IN [name |-> function_details.name,
            description |-> IF "description" \in DOMAIN function_details
                            THEN function_details.description ELSE "",
            parameters |-> ConvertSchemaToGemini(
                               IF "parameters" \in DOMAIN function_details
                               THEN function_details.parameters ELSE [n \in {} |-> n])]]

(***************************************************************************)
(* ToolConverter (tool_converter.py): the renderings of a list of tool     *)
(* definitions in the OpenAI format.  A dict is a record, a list a         *)
(* sequence.                                                               *)
(***************************************************************************)
\* tool.get("function", tool)
FunctionDetails(tool) == IF "function" \in DOMAIN tool THEN tool.function ELSE tool

\* a rendering that leaves the required list out
RequiredDropped(parameters) == <<>>

\* function_details["parameters"].get("required", [])
Required(parameters) ==
    IF "required" \in DOMAIN parameters THEN parameters.required ELSE <<>>

\* lines 517-527: one tool in the Anthropic format
AnthropicTool(tool) ==
    LET function_details == FunctionDetails(tool)
    IN [name |-> function_details.name,
        description |-> function_details.description,
        input_schema |-> [type |-> "object",
                          properties |-> function_details.parameters.properties,
                          required |-> Required(function_details.parameters)]]

\* lines 549-564: one tool in the Gemini format
GeminiTool(tool) ==
    LET function_details == FunctionDetails(tool)
        parameters == [type |-> "object",
                       properties |-> function_details.parameters.properties,
                       required |-> Required(function_details.parameters)]
    IN [type |-> "function",
        function |-> [name |-> function_details.name,
                      description |-> function_details.description,
                      parameters |-> parameters]]

\* convert_openai_to_anthropic
ConvertOpenAIToAnthropic(schema) == [i \in 1..Len(schema) |-> AnthropicTool(schema[i])]

\* convert_openai_to_gemini
ConvertOpenAIToGemini(schema) == [i \in 1..Len(schema) |-> GeminiTool(schema[i])]

(***************************************************************************)
(* State.                                                                  *)
(*   api, messages, registered_functions, processed_tool_ids: the fields   *)
(*   of LLMHandler and of its MessageHandler.                              *)
(*   pc: where the driving thread is: "idle" (no call in progress),        *)
(*   "generate" (line 47, about to call generate), "collect" (the loop of  *)
(*   line 76), "unwind" (an exception leaves the with block of line 68,    *)
(*   which waits for the workers).                                         *)
(*   futures, idx: the futures of the turn and the loop position in them.  *)
(*   outcome: what the send_user_message call that just ended returned or  *)
(*   raised, until the caller's next operation.                            *)
(* History variables, read by the properties only:                         *)
(*   callStart: the Conversation when the call in progress was entered;    *)
(*   turnStart: length of the Conversation after the assistant message of  *)
(*   the turn; doneOrder: the futures of the turn in completion order;     *)
(*   running: the number of submitted calls the pool has not finished;     *)
(*   answered: the ids of the tool messages appended to the Conversation   *)
(*   since the latest set_model (or reset), in order;                      *)
(*   sessionIds: the ids marked processed since the latest set_model;      *)
(*   wasReset: MessageHandler.reset has discarded messages;                *)
(*   appended: the number of messages added to the Conversation so far;    *)
(*   toolFree: the response generate returned last in the call in progress *)
(*   had no tool_use block;                                                *)
(*   lastPrompt: the text of the latest set_system_prompt call ("" when    *)
(*   there was none since the start or the latest reset);                  *)
(*   lastRegistered: per name, the callable of the latest registration.    *)
(* The history variables above belong to the specifications of the         *)
(* controller (Spec, RegistrySpec).                                        *)
(* State of the other specifications:                                      *)
(*   tools: the tool declarations of set_tools, <<>> for None              *)
(*   (AdapterSpec);                                                        *)
(*   lastCall: the MessageHandler method the application called last,      *)
(*   with its arguments and whether it raised (HandlerSpec);               *)
(*   sent: the requests the running generate call has issued to the        *)
(*   backend; reply: what the backend answered; response: what generate    *)
(*   returned or raised (AdapterSpec);                                     *)
(*   openai_schema: the list of tool definitions handed to ToolConverter;  *)
(*   converted: the list a convert_openai_to_* method returned             *)
(*   (ConverterSpec).                                                      *)
(***************************************************************************)
VARIABLES api, messages, registered_functions, processed_tool_ids,
          pc, futures, idx, outcome,
          callStart, turnStart, doneOrder, running, answered, sessionIds, wasReset, appended,
          toolFree, lastPrompt, lastRegistered,
          lastCall, tools, sent, reply, response,
          openai_schema, converted

vars == <<api, messages, registered_functions, processed_tool_ids,
          pc, futures, idx, outcome,
          callStart, turnStart, doneOrder, running, answered, sessionIds, wasReset, appended,
          toolFree, lastPrompt, lastRegistered,
          lastCall, tools, sent, reply, response,
          openai_schema, converted>>

handlerVars == <<api, registered_functions, processed_tool_ids>>
loopVars == <<pc, futures, idx>>
historyVars == <<callStart, turnStart, doneOrder, running>>
adapterVars == <<tools, sent, reply, response>>
converterVars == <<openai_schema, converted>>

NoCall == [op |-> "none"]
NoReply == [kind |-> "none"]
NoResponse == [kind |-> "none"]
NotConverted == [to |-> "none"]

NoOutcome == [kind |-> "none"]
Answer(text) == [kind |-> "answer", text |-> text]
Raised(error) == [kind |-> "raised", error |-> error]

\* LLMHandler.__init__ and MessageHandler.__init__
Init ==
    /\ api = "A"
    /\ messages = <<>>
    /\ registered_functions = [n \in {} |-> n]
    /\ processed_tool_ids = {}
    /\ pc = "idle"
    /\ futures = <<>>
    /\ idx = 0
    /\ outcome = NoOutcome
    /\ callStart = <<>>
    /\ turnStart = 0
    /\ doneOrder = <<>>
    /\ running = 0
    /\ answered = <<>>
    /\ sessionIds = {}
    /\ wasReset = FALSE
    /\ appended = 0
    /\ toolFree = FALSE
    /\ lastPrompt = ""
    /\ lastRegistered = [n \in {} |-> n]
    /\ lastCall = NoCall
    /\ tools = <<>>
    /\ sent = <<>>
    /\ reply = NoReply
    /\ response = NoResponse
    /\ openai_schema = <<>>
    /\ converted = NotConverted

\* register_function(func)
RegisterFunction(func) ==
    /\ pc = "idle"
    /\ registered_functions' = Register(registered_functions, func)
    /\ UNCHANGED <<api, messages, processed_tool_ids, answered, sessionIds, wasReset, appended>>
    /\ outcome' = NoOutcome
    /\ UNCHANGED loopVars
    /\ UNCHANGED historyVars
    /\ lastRegistered' =
           [n \in DOMAIN lastRegistered \cup {func.name} |->
               IF n = func.name THEN func.impl ELSE lastRegistered[n]]
    /\ UNCHANGED <<toolFree, lastPrompt>>
    /\ UNCHANGED <<lastCall, adapterVars, converterVars>>

\* register_functions(functions)
RegisterFunctions(functions) ==
    /\ pc = "idle"
    /\ registered_functions' = RegisterAll(registered_functions, functions)
    /\ UNCHANGED <<api, messages, processed_tool_ids, answered, sessionIds, wasReset, appended>>
    /\ outcome' = NoOutcome
    /\ UNCHANGED loopVars
    /\ UNCHANGED historyVars
    /\ lastRegistered' =
           [n \in DOMAIN lastRegistered \cup { functions[i].name : i \in 1..Len(functions) } |->
               LET at == { i \in 1..Len(functions) : functions[i].name = n }
               IN IF at = {} THEN lastRegistered[n]
                  ELSE functions[CHOOSE i \in at : \A j \in at : j <= i].impl]
    /\ UNCHANGED <<toolFree, lastPrompt>>
    /\ UNCHANGED <<lastCall, adapterVars, converterVars>>

\* set_model that keeps processed_tool_ids
SetModelKeepIds(new_api) ==
    /\ pc = "idle"
    /\ api' = new_api
    /\ answered' = <<>>
    /\ sessionIds' = {}
    /\ UNCHANGED <<messages, registered_functions, processed_tool_ids, wasReset, appended>>
    /\ outcome' = NoOutcome
    /\ UNCHANGED loopVars
    /\ UNCHANGED historyVars
    /\ UNCHANGED <<toolFree, lastPrompt, lastRegistered>>
    /\ UNCHANGED <<lastCall, adapterVars, converterVars>>

\* a set_model that starts the new adapter on an empty Conversation
SetModelFresh(new_api) ==
    /\ pc = "idle"
    /\ api' = new_api
    /\ processed_tool_ids' = {}
    /\ messages' = <<>>
    /\ answered' = <<>>
    /\ sessionIds' = {}
    /\ UNCHANGED <<registered_functions, wasReset, appended>>
    /\ outcome' = NoOutcome
    /\ UNCHANGED loopVars
    /\ UNCHANGED historyVars
    /\ UNCHANGED <<toolFree, lastPrompt, lastRegistered>>
    /\ UNCHANGED <<lastCall, adapterVars, converterVars>>

\* set_tools(tools)
SetTools(new_tools) ==
    /\ pc = "idle"
    /\ tools' = new_tools
    /\ outcome' = NoOutcome
    /\ UNCHANGED <<api, messages, registered_functions, processed_tool_ids, answered,
                   sessionIds, wasReset, appended>>
    /\ UNCHANGED loopVars
    /\ UNCHANGED historyVars
    /\ UNCHANGED <<toolFree, lastPrompt, lastRegistered>>
    /\ UNCHANGED <<lastCall, sent, reply, response, converterVars>>

\* set_model(api)
SetModel(new_api) ==
    /\ pc = "idle"
    /\ api' = new_api
    /\ processed_tool_ids' = {}
    /\ answered' = <<>>
    /\ sessionIds' = {}
    /\ UNCHANGED <<messages, registered_functions, wasReset, appended>>
    /\ outcome' = NoOutcome
    /\ UNCHANGED loopVars
    /\ UNCHANGED historyVars
    /\ UNCHANGED <<toolFree, lastPrompt, lastRegistered>>
    /\ UNCHANGED <<lastCall, adapterVars, converterVars>>

\* set_system_prompt(system_prompt)
SetSystemPrompt(system_prompt) ==
    /\ pc = "idle"
    /\ HasSystem(messages) \/ appended < MaxMessages
    /\ messages' = SetSystemPromptMsgs(messages, system_prompt)
    /\ appended' = appended + (Len(messages') - Len(messages))
    /\ UNCHANGED <<answered, sessionIds, wasReset>>
    /\ UNCHANGED handlerVars
    /\ outcome' = NoOutcome
    /\ UNCHANGED loopVars
    /\ UNCHANGED historyVars
    /\ lastPrompt' = system_prompt
    /\ UNCHANGED <<toolFree, lastRegistered>>
    /\ UNCHANGED <<lastCall, adapterVars, converterVars>>

\* a reset that forgets the processed ids as well
ResetClearsIds ==
    /\ pc = "idle"
    /\ messages' = <<>>
    /\ answered' = <<>>
    /\ wasReset' = (wasReset \/ messages # <<>>)
    /\ processed_tool_ids' = {}
    /\ sessionIds' = {}
    /\ UNCHANGED <<api, registered_functions, appended>>
    /\ outcome' = NoOutcome
    /\ UNCHANGED loopVars
    /\ UNCHANGED historyVars
    /\ lastPrompt' = ""
    /\ UNCHANGED <<toolFree, lastRegistered>>
    /\ UNCHANGED <<lastCall, adapterVars, converterVars>>

\* handler.reset()
Reset ==
    /\ pc = "idle"
    /\ messages' = <<>>
    /\ answered' = <<>>
    /\ wasReset' = (wasReset \/ messages # <<>>)
    /\ UNCHANGED <<sessionIds, appended>>
    /\ UNCHANGED handlerVars
    /\ outcome' = NoOutcome
    /\ UNCHANGED loopVars
    /\ UNCHANGED historyVars
    /\ lastPrompt' = ""
    /\ UNCHANGED <<toolFree, lastRegistered>>
    /\ UNCHANGED <<lastCall, adapterVars, converterVars>>

\* send_user_message(user_text), up to the entry of _process_interaction
SendUserMessage(user_text) ==
    /\ pc = "idle"
    /\ appended < MaxMessages
    /\ messages' = AppendUserText(messages, user_text)
    /\ appended' = appended + 1
    /\ callStart' = messages
    /\ pc' = "generate"
    /\ outcome' = NoOutcome
    /\ UNCHANGED <<futures, idx, turnStart, doneOrder, running, answered, sessionIds, wasReset>>
    /\ UNCHANGED handlerVars
    /\ UNCHANGED <<toolFree, lastPrompt, lastRegistered>>
    /\ UNCHANGED <<lastCall, adapterVars, converterVars>>

\* line 47: the Conversation handed to generate
GenerateInput == messages

\* a failing generate that restores the Conversation of before the call
GenerateRaisesRollback(error) ==
    /\ pc = "generate"
    /\ pc' = "idle"
    /\ outcome' = Raised(error)
    /\ messages' = callStart
    /\ futures' = <<>>
    /\ idx' = 0
    /\ callStart' = <<>>
    /\ turnStart' = 0
    /\ UNCHANGED <<doneOrder, running, answered, sessionIds, wasReset, appended>>
    /\ UNCHANGED handlerVars
    /\ toolFree' = FALSE
    /\ UNCHANGED <<lastPrompt, lastRegistered>>
    /\ UNCHANGED <<lastCall, adapterVars, converterVars>>

\* lines 47-53: generate raises; the exception is re-raised to the caller
GenerateRaises(error) ==
    /\ pc = "generate"
    /\ pc' = "idle"
    /\ outcome' = Raised(error)
    /\ futures' = <<>>
    /\ idx' = 0
    /\ callStart' = <<>>
    /\ turnStart' = 0
    /\ UNCHANGED <<messages, doneOrder, running, answered, sessionIds, wasReset, appended>>
    /\ UNCHANGED handlerVars
    /\ toolFree' = FALSE
    /\ UNCHANGED <<lastPrompt, lastRegistered>>
    /\ UNCHANGED <<lastCall, adapterVars, converterVars>>

\* a tool turn that stores the tool_use blocks only, without the text blocks
GenerateToolUseCallsOnly(content, stop_reason) ==
    LET tool_uses == SelectType(content, "tool_use")
        tool_calls_to_process == ToProcess(tool_uses, processed_tool_ids)
    IN /\ pc = "generate"
       /\ tool_uses # <<>>
       /\ appended < MaxMessages
       /\ appended' = appended + 1
       /\ messages' = AppendMessage(GenerateInput, "assistant", ArgList(tool_uses)).messages
       /\ futures' = Submit(tool_calls_to_process)
       /\ idx' = 1
       /\ turnStart' = Len(messages')
       /\ doneOrder' = <<>>
       /\ running' = running + Len(tool_calls_to_process)
       /\ pc' = "collect"
       /\ UNCHANGED <<outcome, callStart, answered, sessionIds, wasReset>>
       /\ UNCHANGED handlerVars
       /\ toolFree' = FALSE
       /\ UNCHANGED <<lastPrompt, lastRegistered>>
       /\ UNCHANGED <<lastCall, adapterVars, converterVars>>

\* lines 47-74: generate returns content with tool_use blocks; the assistant
\* message is appended and the unprocessed calls are submitted to the pool
GenerateToolUse(content, stop_reason) ==
    LET tool_uses == SelectType(content, "tool_use")
        tool_calls_to_process == ToProcess(tool_uses, processed_tool_ids)
    IN /\ pc = "generate"
       /\ tool_uses # <<>>
       /\ appended < MaxMessages
       /\ appended' = appended + 1
       /\ messages' = AppendMessage(GenerateInput, "assistant", ArgList(content)).messages
       /\ futures' = Submit(tool_calls_to_process)
       /\ idx' = 1
       /\ turnStart' = Len(messages')
       /\ doneOrder' = <<>>
       /\ running' = running + Len(tool_calls_to_process)
       /\ pc' = "collect"
       /\ UNCHANGED <<outcome, callStart, answered, sessionIds, wasReset>>
       /\ UNCHANGED handlerVars
       /\ toolFree' = FALSE
       /\ UNCHANGED <<lastPrompt, lastRegistered>>
       /\ UNCHANGED <<lastCall, adapterVars, converterVars>>

\* a loop that appends the final answer as an assistant message before it returns
GenerateTextRecorded(content, stop_reason) ==
    LET text_blocks == SelectType(content, "text")
        tool_uses == SelectType(content, "tool_use")
    IN /\ pc = "generate"
       /\ tool_uses = <<>>
       /\ IF stop_reason # "tool_use"
          THEN /\ pc' = "idle"
               /\ outcome' = Answer(FinalAnswer(text_blocks))
               /\ messages' = AppendMessage(messages, "assistant",
                                            ArgStr(FinalAnswer(text_blocks))).messages
               /\ futures' = <<>>
               /\ idx' = 0
               /\ callStart' = <<>>
               /\ turnStart' = 0
               /\ toolFree' = FALSE
          ELSE /\ toolFree' = TRUE
               /\ UNCHANGED <<pc, outcome, futures, idx, callStart, turnStart, messages>>
       /\ UNCHANGED <<doneOrder, running, answered, sessionIds, wasReset, appended>>
       /\ UNCHANGED handlerVars
       /\ UNCHANGED <<lastPrompt, lastRegistered>>
       /\ UNCHANGED <<lastCall, adapterVars, converterVars>>

\* lines 47-59, 87-88: generate returns content without tool_use blocks
GenerateText(content, stop_reason) ==
    LET text_blocks == SelectType(content, "text")
        tool_uses == SelectType(content, "tool_use")
    IN /\ pc = "generate"
       /\ tool_uses = <<>>
       /\ IF stop_reason # "tool_use"
          THEN /\ pc' = "idle"
               /\ outcome' = Answer(FinalAnswer(text_blocks))
               /\ futures' = <<>>
               /\ idx' = 0
               /\ callStart' = <<>>
               /\ turnStart' = 0
               /\ toolFree' = FALSE
          ELSE /\ toolFree' = TRUE
               /\ UNCHANGED <<pc, outcome, futures, idx, callStart, turnStart>>
       /\ UNCHANGED <<messages, doneOrder, running, answered, sessionIds, wasReset, appended>>
       /\ UNCHANGED handlerVars
       /\ UNCHANGED <<lastPrompt, lastRegistered>>
       /\ UNCHANGED <<lastCall, adapterVars, converterVars>>

\* a worker that marks the id of its call processed itself
RunToolMarksId(k, does) ==
    /\ pc \in {"collect", "unwind"}
    /\ k \in 1..Len(futures)
    /\ futures[k].state = "pending"
    /\ (does = "") = (futures[k].name \notin DOMAIN registered_functions)
    /\ futures' = [futures EXCEPT
           ![k].state = "done",
           ![k].does = does,
           ![k].impl = Invoked(registered_functions, futures[k].name),
           ![k].result = ExecuteTool(registered_functions, futures[k].id,
                                     futures[k].name, futures[k].input, does)]
    /\ doneOrder' = Append(doneOrder, k)
    /\ running' = running - 1
    /\ processed_tool_ids' = processed_tool_ids \cup {futures[k].id}
    /\ sessionIds' = sessionIds \cup {futures[k].id}
    /\ UNCHANGED <<pc, idx, outcome, messages, callStart, turnStart, answered,
                   wasReset, appended>>
    /\ UNCHANGED <<api, registered_functions>>
    /\ UNCHANGED <<toolFree, lastPrompt, lastRegistered>>
    /\ UNCHANGED <<lastCall, adapterVars, converterVars>>

\* a worker thread runs _execute_tool for the k-th future of the turn; does is
\* what the callable does on this invocation ("" when the name is unknown)
RunTool(k, does) ==
    /\ pc \in {"collect", "unwind"}
    /\ k \in 1..Len(futures)
    /\ futures[k].state = "pending"
    /\ (does = "") = (futures[k].name \notin DOMAIN registered_functions)
    /\ futures' = [futures EXCEPT
           ![k].state = "done",
           ![k].does = does,
           ![k].impl = Invoked(registered_functions, futures[k].name),
           ![k].result = ExecuteTool(registered_functions, futures[k].id,
                                     futures[k].name, futures[k].input, does)]
    /\ doneOrder' = Append(doneOrder, k)
    /\ running' = running - 1
    /\ UNCHANGED <<pc, idx, outcome, messages, callStart, turnStart, answered, sessionIds,
                   wasReset, appended>>
    /\ UNCHANGED handlerVars
    /\ UNCHANGED <<toolFree, lastPrompt, lastRegistered>>
    /\ UNCHANGED <<lastCall, adapterVars, converterVars>>

\* a loop that takes the results as they complete (as_completed) instead of in
\* submission order
CollectResultAsCompleted ==
    /\ pc = "collect"
    /\ idx <= Len(futures)
    /\ idx <= Len(doneOrder)
    /\ LET tool_id == futures[doneOrder[idx]].id
           result_block == futures[doneOrder[idx]].result
           result_str == ResultStr(result_block.data)
       IN /\ processed_tool_ids' = processed_tool_ids \cup {tool_id}
          /\ sessionIds' = sessionIds \cup {tool_id}
          /\ IF result_str.raised
             THEN /\ pc' = "unwind"
                  /\ UNCHANGED <<messages, idx, answered, appended>>
             ELSE /\ messages' = AppendMessage(messages, "tool",
                          ArgDict([tool_call_id |-> tool_id, content |-> result_str.str])).messages
                  /\ answered' = Append(answered, tool_id)
                  /\ appended' = appended + 1
                  /\ idx' = idx + 1
                  /\ UNCHANGED pc
    /\ UNCHANGED <<api, registered_functions, futures, outcome, wasReset>>
    /\ UNCHANGED historyVars
    /\ UNCHANGED <<toolFree, lastPrompt, lastRegistered>>
    /\ UNCHANGED <<lastCall, adapterVars, converterVars>>

\* a loop that marks the ids processed and appends no tool message
CollectResultSilent ==
    /\ pc = "collect"
    /\ idx <= Len(futures)
    /\ futures[idx].state = "done"
    /\ processed_tool_ids' = processed_tool_ids \cup {futures[idx].id}
    /\ sessionIds' = sessionIds \cup {futures[idx].id}
    /\ idx' = idx + 1
    /\ UNCHANGED <<pc, messages, answered, appended>>
    /\ UNCHANGED <<api, registered_functions, futures, outcome, wasReset>>
    /\ UNCHANGED historyVars
    /\ UNCHANGED <<toolFree, lastPrompt, lastRegistered>>
    /\ UNCHANGED <<lastCall, adapterVars, converterVars>>

\* lines 76-83: one pass of the loop over the futures, in submission order
CollectResult ==
    /\ pc = "collect"
    /\ idx <= Len(futures)
    /\ futures[idx].state = "done"
    /\ LET tool_id == futures[idx].id
           result_block == futures[idx].result
           result_str == ResultStr(result_block.data)
       IN /\ processed_tool_ids' = processed_tool_ids \cup {tool_id}
          /\ sessionIds' = sessionIds \cup {tool_id}
          /\ IF result_str.raised
             THEN /\ pc' = "unwind"
                  /\ UNCHANGED <<messages, idx, answered, appended>>
             ELSE /\ messages' = AppendMessage(messages, "tool",
                          ArgDict([tool_call_id |-> tool_id, content |-> result_str.str])).messages
                  /\ answered' = Append(answered, tool_id)
                  /\ appended' = appended + 1
                  /\ idx' = idx + 1
                  /\ UNCHANGED pc
    /\ UNCHANGED <<api, registered_functions, futures, outcome, wasReset>>
    /\ UNCHANGED historyVars
    /\ UNCHANGED <<toolFree, lastPrompt, lastRegistered>>
    /\ UNCHANGED <<lastCall, adapterVars, converterVars>>

\* a loop that goes on to the next generate without waiting for the results
ExitPoolNoWait ==
    /\ pc = "collect"
    /\ pc' = "generate"
    /\ doneOrder' = <<>>
    /\ UNCHANGED <<messages, futures, idx, outcome, callStart, turnStart, running, answered,
                   sessionIds, wasReset, appended>>
    /\ UNCHANGED handlerVars
    /\ UNCHANGED <<toolFree, lastPrompt, lastRegistered>>
    /\ UNCHANGED <<lastCall, adapterVars, converterVars>>

\* a loop that appends the caller's input again before each further generate
ExitPoolAppendsInput ==
    /\ pc = "collect"
    /\ idx > Len(futures)
    /\ appended < MaxMessages
    /\ pc' = "generate"
    /\ doneOrder' = <<>>
    /\ messages' = Append(messages, messages[Len(callStart) + 1])
    /\ appended' = appended + 1
    /\ UNCHANGED <<futures, idx, outcome, callStart, turnStart, running, answered,
                   sessionIds, wasReset>>
    /\ UNCHANGED handlerVars
    /\ UNCHANGED <<toolFree, lastPrompt, lastRegistered>>
    /\ UNCHANGED <<lastCall, adapterVars, converterVars>>

\* lines 68, 85: the with block ends (every future collected) and the loop continues
ExitPool ==
    /\ pc = "collect"
    /\ idx > Len(futures)
    /\ pc' = "generate"
    /\ doneOrder' = <<>>
    /\ UNCHANGED <<messages, futures, idx, outcome, callStart, turnStart, running, answered,
                   sessionIds, wasReset, appended>>
    /\ UNCHANGED handlerVars
    /\ UNCHANGED <<toolFree, lastPrompt, lastRegistered>>
    /\ UNCHANGED <<lastCall, adapterVars, converterVars>>

\* line 68: the exception of line 79 leaves the with block once the pool has
\* shut down (shutdown(wait=True)), then leaves send_user_message
ExitPoolRaising ==
    /\ pc = "unwind"
    /\ \A k \in 1..Len(futures) : futures[k].state = "done"
    /\ pc' = "idle"
    /\ outcome' = Raised("TypeError")
    /\ futures' = <<>>
    /\ idx' = 0
    /\ callStart' = <<>>
    /\ turnStart' = 0
    /\ doneOrder' = <<>>
    /\ UNCHANGED <<messages, running, answered, sessionIds, wasReset, appended>>
    /\ UNCHANGED handlerVars
    /\ toolFree' = FALSE
    /\ UNCHANGED <<lastPrompt, lastRegistered>>
    /\ UNCHANGED <<lastCall, adapterVars, converterVars>>

Next ==
    \/ \E func \in Functions : RegisterFunction(func)
    \/ \E new_api \in Apis : SetModel(new_api)
    \/ \E system_prompt \in SystemPrompts : SetSystemPrompt(system_prompt)
    \/ Reset
    \/ \E user_text \in UserTexts : SendUserMessage(user_text)
    \/ \E error \in ApiErrors : GenerateRaises(error)
    \/ \E content \in Contents, stop_reason \in StopReasons : GenerateToolUse(content, stop_reason)
    \/ \E content \in Contents, stop_reason \in StopReasons : GenerateText(content, stop_reason)
    \/ \E k \in 1..Len(futures), does \in Behaviours \cup {""} : RunTool(k, does)
    \/ CollectResult
    \/ ExitPool
    \/ ExitPoolRaising

Spec == Init /\ [][Next]_vars

(***************************************************************************)
(* The registry and the tool dispatch alone: one adapter, no system        *)
(* prompt, no reset; callables are registered one at a time or as a list,  *)
(* among them two callables named add.                                     *)
(***************************************************************************)
RegistryNext ==
    \/ \E func \in Functions : RegisterFunction(func)
    \/ \E functions \in FunctionLists : RegisterFunctions(functions)
    \/ \E user_text \in UserTexts : SendUserMessage(user_text)
    \/ \E error \in ApiErrors : GenerateRaises(error)
    \/ \E content \in Contents, stop_reason \in StopReasons : GenerateToolUse(content, stop_reason)
    \/ \E content \in Contents, stop_reason \in StopReasons : GenerateText(content, stop_reason)
    \/ \E k \in 1..Len(futures), does \in Behaviours \cup {""} : RunTool(k, does)
    \/ CollectResult
    \/ ExitPool
    \/ ExitPoolRaising

RegistrySpec == Init /\ [][RegistryNext]_vars

(***************************************************************************)
(* The worker pool of one call: ThreadPoolExecutor() of line 68 has        *)
(* min(32, cpu_count + 4) worker threads, five on a machine with one CPU.  *)
(* A submitted call is pending in the work queue until a worker takes it   *)
(* (first in, first out), then running until its callable has returned.    *)
(* The responses carry up to MaxCalls calls with ids of their own.         *)
(***************************************************************************)
MaxWorkers == 5
MaxCalls == 6

CallIds == <<"c1", "c2", "c3", "c4", "c5", "c6", "c7", "c8">>

\* a response of n tool_use blocks
PoolContent(n) == [i \in 1..n |-> ToolUseBlock(CallIds[i], "add", [a |-> 2, b |-> 3])]

\* the futures a worker is executing
Busy == { k \in 1..Len(futures) : futures[k].state = "running" }

\* add is registered and send_user_message has appended the caller's text
PoolInit ==
    /\ api = "A"
    /\ messages = AppendUserText(<<>>, "What is 2+3?")
    /\ registered_functions = Register([n \in {} |-> n], [name |-> "add", impl |-> "add#1"])
    /\ processed_tool_ids = {}
    /\ pc = "generate"
    /\ futures = <<>>
    /\ idx = 0
    /\ outcome = NoOutcome
    /\ callStart = <<>>
    /\ turnStart = 0
    /\ doneOrder = <<>>
    /\ running = 0
    /\ answered = <<>>
    /\ sessionIds = {}
    /\ wasReset = FALSE
    /\ appended = 1
    /\ toolFree = FALSE
    /\ lastPrompt = ""
    /\ lastRegistered = [n \in {"add"} |-> "add#1"]
    /\ lastCall = NoCall
    /\ tools = <<>>
    /\ sent = <<>>
    /\ reply = NoReply
    /\ response = NoResponse
    /\ openai_schema = <<>>
    /\ converted = NotConverted

\* a pool of one worker thread
StartToolSingleWorker(k) ==
    /\ pc \in {"collect", "unwind"}
    /\ k \in 1..Len(futures)
    /\ futures[k].state = "pending"
    /\ \A j \in 1..(k - 1) : futures[j].state # "pending"
    /\ Cardinality(Busy) < 1
    /\ futures' = [futures EXCEPT ![k].state = "running"]
    /\ UNCHANGED <<pc, idx, outcome, messages, callStart, turnStart, doneOrder, running,
                   answered, sessionIds, wasReset, appended>>
    /\ UNCHANGED handlerVars
    /\ UNCHANGED <<toolFree, lastPrompt, lastRegistered>>
    /\ UNCHANGED <<lastCall, adapterVars, converterVars>>

\* a worker thread takes the k-th call from the work queue: the calls before it
\* have been taken, and fewer than max_workers calls are being executed
StartTool(k) ==
    /\ pc \in {"collect", "unwind"}
    /\ k \in 1..Len(futures)
    /\ futures[k].state = "pending"
    /\ \A j \in 1..(k - 1) : futures[j].state # "pending"
    /\ Cardinality(Busy) < MaxWorkers
    /\ futures' = [futures EXCEPT ![k].state = "running"]
    /\ UNCHANGED <<pc, idx, outcome, messages, callStart, turnStart, doneOrder, running,
                   answered, sessionIds, wasReset, appended>>
    /\ UNCHANGED handlerVars
    /\ UNCHANGED <<toolFree, lastPrompt, lastRegistered>>
    /\ UNCHANGED <<lastCall, adapterVars, converterVars>>

\* the worker executing the k-th call returns from _execute_tool
FinishTool(k, does) ==
    /\ pc \in {"collect", "unwind"}
    /\ k \in 1..Len(futures)
    /\ futures[k].state = "running"
    /\ futures' = [futures EXCEPT
           ![k].state = "done",
           ![k].does = does,
           ![k].impl = Invoked(registered_functions, futures[k].name),
           ![k].result = ExecuteTool(registered_functions, futures[k].id,
                                     futures[k].name, futures[k].input, does)]
    /\ doneOrder' = Append(doneOrder, k)
    /\ running' = running - 1
    /\ UNCHANGED <<pc, idx, outcome, messages, callStart, turnStart, answered, sessionIds,
                   wasReset, appended>>
    /\ UNCHANGED handlerVars
    /\ UNCHANGED <<toolFree, lastPrompt, lastRegistered>>
    /\ UNCHANGED <<lastCall, adapterVars, converterVars>>

PoolNext ==
    \/ \E n \in 1..MaxCalls : GenerateToolUse(PoolContent(n), "tool_use")
    \/ \E k \in 1..Len(futures) : StartTool(k)
    \/ \E k \in 1..Len(futures) : FinishTool(k, "return")
    \/ CollectResult
    \/ ExitPool

PoolSpec == PoolInit /\ [][PoolNext]_vars

(***************************************************************************)
(* The configuration calls between the calls of send_user_message: tools   *)
(* are declared, add is registered, the system prompt is set, the adapter  *)
(* is replaced, the MessageHandler is reset; every callable returns.       *)
(***************************************************************************)
ConfigNext ==
    \/ RegisterFunction([name |-> "add", impl |-> "add#1"])
    \/ SetTools(<<"add">>)
    \/ SetSystemPrompt("You compute sums.")
    \/ \E new_api \in {"A", "B"} : SetModel(new_api)
    \/ Reset
    \/ \E user_text \in UserTexts : SendUserMessage(user_text)
    \/ \E content \in Contents, stop_reason \in StopReasons : GenerateToolUse(content, stop_reason)
    \/ \E content \in Contents, stop_reason \in StopReasons : GenerateText(content, stop_reason)
    \/ \E k \in 1..Len(futures) :
           RunTool(k, IF futures[k].name \in DOMAIN registered_functions THEN "return" ELSE "")
    \/ CollectResult
    \/ ExitPool

ConfigSpec == Init /\ [][ConfigNext]_vars

(***************************************************************************)
(* The tool dispatch of one call with callables of every kind of return    *)
(* value: add alone or add and multiply are registered, the responses name *)
(* both.                                                                   *)
(***************************************************************************)
ExecuteInit ==
    /\ api = "A"
    /\ messages = AppendUserText(<<>>, "What is 2+3?")
    /\ registered_functions \in
           { Register([n \in {} |-> n], [name |-> "add", impl |-> "add#1"]),
             RegisterAll([n \in {} |-> n],
                         <<[name |-> "multiply", impl |-> "multiply#1"],
                           [name |-> "add", impl |-> "add#1"]>>) }
    /\ processed_tool_ids = {}
    /\ pc = "generate"
    /\ futures = <<>>
    /\ idx = 0
    /\ outcome = NoOutcome
    /\ callStart = <<>>
    /\ turnStart = 0
    /\ doneOrder = <<>>
    /\ running = 0
    /\ answered = <<>>
    /\ sessionIds = {}
    /\ wasReset = FALSE
    /\ appended = 1
    /\ toolFree = FALSE
    /\ lastPrompt = ""
    /\ lastRegistered = [n \in DOMAIN registered_functions |-> registered_functions[n].impl]
    /\ lastCall = NoCall
    /\ tools = <<>>
    /\ sent = <<>>
    /\ reply = NoReply
    /\ response = NoResponse
    /\ openai_schema = <<>>
    /\ converted = NotConverted

ExecuteNext ==
    \/ \E content \in Contents, stop_reason \in StopReasons : GenerateToolUse(content, stop_reason)
    \/ \E k \in 1..Len(futures), does \in Behaviours \cup OtherBehaviours \cup {""} :
           RunTool(k, does)
    \/ CollectResult
    \/ ExitPool
    \/ ExitPoolRaising

ExecuteSpec == ExecuteInit /\ [][ExecuteNext]_vars

(***************************************************************************)
(* The final answer alone: the responses carry up to MaxBlocks text blocks,*)
(* with text, with empty text or without a text entry.                     *)
(***************************************************************************)
MaxBlocks == 3
AnswerTexts == {"", "hi", "there", "!"}
AnswerBlocks == { TextBlock(s) : s \in AnswerTexts } \cup { [type |-> "text"] }
AnswerContents == SeqsUpTo(AnswerBlocks, MaxBlocks)

AnswerNext ==
    \/ \E user_text \in UserTexts : SendUserMessage(user_text)
    \/ \E content \in AnswerContents, stop_reason \in StopReasons :
           GenerateText(content, stop_reason)

AnswerSpec == Init /\ [][AnswerNext]_vars

(***************************************************************************)
(* MessageHandler alone: the application calls its methods directly.       *)
(***************************************************************************)
Roles == {"user", "system", "tool"}

\* the arguments append_message is called with
MessageArgs ==
    { ArgStr("hi"),
      ArgDict([text |-> "hi"]),
      ArgDict([tool_call_id |-> "t1", content |-> "5"]),
      ArgDict([tool_call_id |-> "t1"]),
      ArgList(<<[text |-> "hi"], ArgStr("raw")>>) }

ImagePaths == {"cat.png", "gone.png"}
TextComments == {"", "look"}

\* what the specifications of MessageHandler leave alone
controllerVars ==
    <<api, registered_functions, processed_tool_ids, pc, futures, idx, outcome,
      callStart, turnStart, doneOrder, running, answered, sessionIds, wasReset,
      toolFree, lastPrompt, lastRegistered>>

\* handler.set_system_prompt(system_prompt)
CallSetSystemPrompt(system_prompt) ==
    /\ HasSystem(messages) \/ appended < MaxDirect
    /\ messages' = SetSystemPromptMsgs(messages, system_prompt)
    /\ appended' = appended + (Len(messages') - Len(messages))
    /\ lastCall' = [op |-> "set_system_prompt", text |-> system_prompt, raised |-> FALSE,
                    again |-> (lastCall.op = "set_system_prompt"
                               /\ lastCall.text = system_prompt)]
    /\ UNCHANGED <<controllerVars, adapterVars, converterVars>>

\* handler.append_message(role, content_blocks)
CallAppendMessage(role, arg) ==
    LET r == AppendMessage(messages, role, arg)
    IN /\ appended < MaxDirect
       /\ messages' = r.messages
       /\ appended' = appended + (Len(messages') - Len(messages))
       /\ lastCall' = [op |-> "append_message", role |-> role, arg |-> arg, raised |-> ~r.ok]
       /\ UNCHANGED <<controllerVars, adapterVars, converterVars>>

\* handler.append_user_text(text)
CallAppendUserText(text) ==
    /\ appended < MaxDirect
    /\ messages' = AppendUserText(messages, text)
    /\ appended' = appended + 1
    /\ lastCall' = [op |-> "append_user_text", text |-> text, raised |-> FALSE]
    /\ UNCHANGED <<controllerVars, adapterVars, converterVars>>

\* handler.append_image(role, image_path, text_comment): raises what open() or
\* append_message raises
CallAppendImage(role, image_path, text_comment) ==
    LET image_data == EncodeImageToBase64(image_path)
        r == IF image_data.raised THEN [ok |-> FALSE, messages |-> messages]
             ELSE AppendMessage(messages, role,
                                ArgList(ImageBlocks(image_data, text_comment)))
    IN /\ appended < MaxDirect
       /\ messages' = r.messages
       /\ appended' = appended + (Len(messages') - Len(messages))
       /\ lastCall' = [op |-> "append_image", role |-> role, image_path |-> image_path,
                       text_comment |-> text_comment, raised |-> ~r.ok]
       /\ UNCHANGED <<controllerVars, adapterVars, converterVars>>

\* handler.reset()
CallReset ==
    /\ messages' = <<>>
    /\ lastCall' = [op |-> "reset", raised |-> FALSE]
    /\ UNCHANGED <<appended, controllerVars, adapterVars, converterVars>>

HandlerNext ==
    \/ \E system_prompt \in SystemPrompts : CallSetSystemPrompt(system_prompt)
    \/ \E role \in Roles, arg \in MessageArgs : CallAppendMessage(role, arg)
    \/ \E text \in UserTexts : CallAppendUserText(text)
    \/ \E image_path \in ImagePaths, text_comment \in TextComments :
           CallAppendImage("user", image_path, text_comment)
    \/ CallReset

HandlerSpec == Init /\ [][HandlerNext]_vars

(***************************************************************************)
(* The image path of MessageHandler: append_image with every role, on      *)
(* files with and without a known extension and on a missing file, next to *)
(* the methods that build the Conversation around it.                      *)
(***************************************************************************)
AllImagePaths == ImageFiles \cup {"gone.png"}

ImageNext ==
    \/ \E role \in Roles, image_path \in AllImagePaths, text_comment \in TextComments :
           CallAppendImage(role, image_path, text_comment)
    \/ \E text \in UserTexts : CallAppendUserText(text)
    \/ \E system_prompt \in SystemPrompts : CallSetSystemPrompt(system_prompt)
    \/ CallReset

ImageSpec == Init /\ [][ImageNext]_vars

(***************************************************************************)
(* One send_user_message call against a concrete adapter: the loop of      *)
(* _process_interaction with the steps of generate (the request is built   *)
(* and sent, the backend replies or fails, the reply is normalized).  The  *)
(* tools of a turn are not modelled here: every call is answered by        *)
(* ToolOutput.  pc is "generate" (line 49), "normalize" (the backend has   *)
(* replied), "returned" (generate has returned or raised), "idle".         *)
(***************************************************************************)
ToolDeclarations == { <<>>, <<"add">> }

ToolOutput == "{\"result\": \"5\"}"

\* the Conversations a call starts with (the user message is appended)
Conversations ==
    { <<[role |-> "user", content |-> <<TextBlock("What is 2+3?")>>]>>,
      <<SystemMessage("You compute sums."),
        [role |-> "user", content |-> <<TextBlock("What is 2+3?")>>]>>,
      <<SystemMessage("You compute sums."),
        [role |-> "user", content |-> <<TextBlock("hi")>>],
        [role |-> "assistant", content |-> <<TextBlock("hi")>>],
        [role |-> "user", content |-> <<TextBlock("What is 2+3?")>>]>>,
      <<[role |-> "user", content |-> <<TextBlock("")>>]>> }

\* what the backends answer: the ids the backend supplies differ per invocation
AnthropicReplies ==
    LET use(id) == [type |-> "tool_use", id |-> id, name |-> "add",
                    input |-> [a |-> 2, b |-> 3]]
        text(t) == [type |-> "text", text |-> t]
    IN { [content |-> c] :
           c \in { <<text("hi")>>, <<text(" ")>>, <<use("toolu_1")>>,
                   <<text("hi"), use("toolu_1")>>, <<use("toolu_1"), use("toolu_2")>> } }

OpenAIReplies ==
    LET call(id, arguments) == [id |-> id, name |-> "add", arguments |-> arguments]
        good == JsonOfInput([a |-> 2, b |-> 3])
    IN { [message |-> m] :
           m \in { [content |-> "hi", tool_calls |-> <<>>],
                   [content |-> "", tool_calls |-> <<call("call_1", good)>>],
                   [content |-> "hi", tool_calls |-> <<call("call_1", good)>>],
                   [content |-> "", tool_calls |-> <<call("call_1", good), call("call_2", good)>>],
                   [content |-> "", tool_calls |-> <<call("call_1", "{")>>] } }

GeminiReplies ==
    LET call(name) == [text |-> "", function_call |-> [name |-> name, args |-> [a |-> 2, b |-> 3]]]
        text(t) == [text |-> t, function_call |-> [name |-> "", args |-> <<>>]]
    IN { [parts |-> ps] :
           ps \in { <<text("hi")>>, <<call("add")>>, <<text("hi"), call("add")>>,
                    <<call("add"), call("add")>>, <<call("add"), call("multiply")>> } }

Replies(adapter) ==
    CASE adapter = "anthropic" -> AnthropicReplies
      [] adapter = "gemini" -> GeminiReplies
      [] OTHER -> OpenAIReplies

\* what AdapterSpec leaves alone
unusedVars ==
    <<registered_functions, futures, idx, callStart, turnStart, doneOrder, running,
      answered, sessionIds, wasReset, toolFree, lastPrompt, lastRegistered, lastCall,
      openai_schema, converted>>

\* LLMHandler(api), set_tools(tools), the Conversation of the call at line 47
AdapterInit ==
    /\ api \in Adapters
    /\ messages \in Conversations
    /\ tools \in ToolDeclarations
    /\ registered_functions = [n \in {} |-> n]
    /\ processed_tool_ids = {}
    /\ pc = "generate"
    /\ futures = <<>>
    /\ idx = 0
    /\ outcome = NoOutcome
    /\ callStart = <<>>
    /\ turnStart = 0
    /\ doneOrder = <<>>
    /\ running = 0
    /\ answered = <<>>
    /\ sessionIds = {}
    /\ wasReset = FALSE
    /\ appended = 0
    /\ toolFree = FALSE
    /\ lastPrompt = ""
    /\ lastRegistered = [n \in {} |-> n]
    /\ lastCall = NoCall
    /\ sent = <<>>
    /\ reply = NoReply
    /\ response = NoResponse
    /\ openai_schema = <<>>
    /\ converted = NotConverted

\* generate raises while it converts the Conversation, before any request
ConvertRaises ==
    LET r == Request(api, messages, tools)
    IN /\ pc = "generate"
       /\ r.raised
       /\ response' = Raised(r.error)
       /\ pc' = "returned"
       /\ UNCHANGED <<api, messages, processed_tool_ids, outcome, appended, tools, sent, reply>>
       /\ UNCHANGED unusedVars

\* a generate that sends the request a second time when the backend fails
BackendFailsRetried(error) ==
    LET r == Request(api, messages, tools)
    IN /\ pc = "generate"
       /\ ~r.raised
       /\ sent' = sent \o <<r.request, r.request>>
       /\ reply' = [kind |-> "error", error |-> error]
       /\ response' = Raised(error)
       /\ pc' = "returned"
       /\ UNCHANGED <<api, messages, processed_tool_ids, outcome, appended, tools>>
       /\ UNCHANGED unusedVars

\* generate sends its request and the backend call raises: the exception leaves
\* generate as it is
BackendFails(error) ==
    LET r == Request(api, messages, tools)
    IN /\ pc = "generate"
       /\ ~r.raised
       /\ sent' = Append(sent, r.request)
       /\ reply' = [kind |-> "error", error |-> error]
       /\ response' = Raised(error)
       /\ pc' = "returned"
       /\ UNCHANGED <<api, messages, processed_tool_ids, outcome, appended, tools>>
       /\ UNCHANGED unusedVars

\* generate sends its request and the backend answers
BackendReplies(backend_reply) ==
    LET r == Request(api, messages, tools)
    IN /\ pc = "generate"
       /\ ~r.raised
       /\ sent' = Append(sent, r.request)
       /\ reply' = [kind |-> "reply", body |-> backend_reply]
       /\ pc' = "normalize"
       /\ UNCHANGED <<api, messages, processed_tool_ids, outcome, appended, tools, response>>
       /\ UNCHANGED unusedVars

\* generate turns the reply into {content, stop_reason} and returns
Normalize ==
    /\ pc = "normalize"
    /\ response' = Normalized(api, reply.body)
    /\ pc' = "returned"
    /\ UNCHANGED <<api, messages, processed_tool_ids, outcome, appended, tools, sent, reply>>
    /\ UNCHANGED unusedVars

\* lines 50-53: the exception of generate is raised again
Reraise ==
    /\ pc = "returned"
    /\ response.kind = "raised"
    /\ outcome' = Raised(response.error)
    /\ pc' = "idle"
    /\ UNCHANGED <<api, messages, processed_tool_ids, appended>>
    /\ UNCHANGED adapterVars
    /\ UNCHANGED unusedVars

\* lines 55-59, 87-88: a response without tool_use blocks ends the call
ReturnAnswer ==
    /\ pc = "returned"
    /\ response.kind = "returned"
    /\ SelectType(response.content, "tool_use") = <<>>
    /\ IF response.stop_reason # "tool_use"
       THEN /\ outcome' = Answer(FinalAnswer(SelectType(response.content, "text")))
            /\ pc' = "idle"
            /\ UNCHANGED adapterVars
       ELSE /\ pc' = "generate"
            /\ sent' = <<>>
            /\ reply' = NoReply
            /\ response' = NoResponse
            /\ UNCHANGED <<outcome, tools>>
    /\ UNCHANGED <<api, messages, processed_tool_ids, appended>>
    /\ UNCHANGED unusedVars

RECURSIVE ToolReplies(_)
\* lines 76-83 with every result being ToolOutput
ToolReplies(calls) ==
    IF calls = <<>> THEN <<>>
    ELSE <<ToolMessage(Head(calls).id, ToolOutput)>> \o ToolReplies(Tail(calls))

\* lines 61-85: the assistant message and the tool messages of the turn are
\* appended and the loop calls generate again
ContinueLoop ==
    LET tool_uses == SelectType(response.content, "tool_use")
        tool_calls_to_process == ToProcess(tool_uses, processed_tool_ids)
    IN /\ pc = "returned"
       /\ response.kind = "returned"
       /\ tool_uses # <<>>
       /\ appended < MaxMessages
       /\ messages' = AppendMessage(messages, "assistant", ArgList(response.content)).messages
                           \o ToolReplies(tool_calls_to_process)
       /\ appended' = appended + (Len(messages') - Len(messages))
       /\ processed_tool_ids' =
              processed_tool_ids
                  \cup { tool_calls_to_process[i].id : i \in 1..Len(tool_calls_to_process) }
       /\ pc' = "generate"
       /\ sent' = <<>>
       /\ reply' = NoReply
       /\ response' = NoResponse
       /\ UNCHANGED <<api, outcome, tools>>
       /\ UNCHANGED unusedVars

AdapterNext ==
    \/ ConvertRaises
    \/ \E error \in ApiErrors : BackendFails(error)
    \/ \E backend_reply \in Replies(api) : BackendReplies(backend_reply)
    \/ Normalize
    \/ Reraise
    \/ ReturnAnswer
    \/ ContinueLoop

AdapterSpec == AdapterInit /\ [][AdapterNext]_vars

(***************************************************************************)
(* The conversion of a Conversation for the backend alone: generate is     *)
(* called on Conversations of up to MaxRendered messages of every kind     *)
(* (append_message stores any role, and a tool message with an empty id).  *)
(***************************************************************************)
MaxRendered == 3

RenderedMessages ==
    { [role |-> "user", content |-> <<TextBlock("What is 2+3?")>>],
      SystemMessage("You compute sums."),
      [role |-> "assistant",
       content |-> <<TextBlock("hi"), ToolUseBlock("call_1", "add", [a |-> 2, b |-> 3])>>],
      [role |-> "assistant",
       content |-> <<ToolUseBlock("call_1", "add", [a |-> 2, b |-> 3]),
                     ToolUseBlock("call_2", "multiply", [a |-> 2, b |-> 3])>>],
      ToolMessage("call_1", ToolOutput),
      ToolMessage("", ToolOutput) }

RenderedConversations == SeqsUpTo(RenderedMessages, MaxRendered)

RenderInit ==
    /\ api \in Adapters
    /\ messages \in RenderedConversations
    /\ tools \in ToolDeclarations
    /\ registered_functions = [n \in {} |-> n]
    /\ processed_tool_ids = {}
    /\ pc = "generate"
    /\ futures = <<>>
    /\ idx = 0
    /\ outcome = NoOutcome
    /\ callStart = <<>>
    /\ turnStart = 0
    /\ doneOrder = <<>>
    /\ running = 0
    /\ answered = <<>>
    /\ sessionIds = {}
    /\ wasReset = FALSE
    /\ appended = 0
    /\ toolFree = FALSE
    /\ lastPrompt = ""
    /\ lastRegistered = [n \in {} |-> n]
    /\ lastCall = NoCall
    /\ sent = <<>>
    /\ reply = NoReply
    /\ response = NoResponse
    /\ openai_schema = <<>>
    /\ converted = NotConverted

RenderNext ==
    \/ ConvertRaises
    \/ \E backend_reply \in Replies(api) : BackendReplies(backend_reply)

RenderSpec == RenderInit /\ [][RenderNext]_vars

(***************************************************************************)
(* The Gemini adapter is constructed with a tools_schema of one tool whose *)
(* parameters are a JSON schema nested up to MaxDepth levels.              *)
(***************************************************************************)
MaxDepth == 2

\* schemas without properties and items
LeafSchemas ==
    { [type |-> "string"],
      [type |-> "string", enum |-> <<"add", "sub">>],
      [type |-> "number", description |-> "first"],
      [type |-> "boolean"],
      [type |-> "integer"],
      [type |-> "String"],
      [type_ |-> "number"] }

\* an object schema of the properties, without or with a required list
ObjectSchemas(properties) ==
    { [type |-> "object", properties |-> properties],
      [properties |-> properties, required |-> <<"a">>] }

RECURSIVE SchemasUpTo(_)
SchemasUpTo(depth) ==
    IF depth = 0 THEN LeafSchemas
    ELSE LET inner == SchemasUpTo(depth - 1)
         IN LeafSchemas
              \cup ObjectSchemas([n \in {} |-> n])
              \cup UNION { ObjectSchemas([n \in {"a"} |-> c]) : c \in inner }
              \cup UNION { ObjectSchemas([n \in {"a", "b"} |->
                                             IF n = "a" THEN c
                                             ELSE [type |-> "string", enum |-> <<"add", "sub">>]])
                            : c \in inner }
              \cup { [type |-> "array"], [type |-> "ARRAY", items |-> [n \in {} |-> n]] }
              \cup { [type |-> "array", items |-> c] : c \in inner }

SchemaInit ==
    /\ openai_schema \in
           { <<[type |-> "function",
                function |-> [name |-> "add", description |-> "Add two numbers",
                              parameters |-> ps]]>> : ps \in SchemasUpTo(MaxDepth) }
    /\ converted = NotConverted
    /\ api = "A"
    /\ messages = <<>>
    /\ registered_functions = [n \in {} |-> n]
    /\ processed_tool_ids = {}
    /\ pc = "idle"
    /\ futures = <<>>
    /\ idx = 0
    /\ outcome = NoOutcome
    /\ callStart = <<>>
    /\ turnStart = 0
    /\ doneOrder = <<>>
    /\ running = 0
    /\ answered = <<>>
    /\ sessionIds = {}
    /\ wasReset = FALSE
    /\ appended = 0
    /\ toolFree = FALSE
    /\ lastPrompt = ""
    /\ lastRegistered = [n \in {} |-> n]
    /\ lastCall = NoCall
    /\ tools = <<>>
    /\ sent = <<>>
    /\ reply = NoReply
    /\ response = NoResponse

\* GeminiAPI.__init__ lines 96-97
CallConvertToolSchemaToGemini ==
    /\ converted = NotConverted
    /\ converted' = [to |-> "gemini_tools",
                     declarations |-> ConvertToolSchemaToGemini(openai_schema)]
    /\ UNCHANGED <<openai_schema, messages, appended, lastCall, controllerVars, adapterVars>>

SchemaNext == CallConvertToolSchemaToGemini

SchemaSpec == SchemaInit /\ [][SchemaNext]_vars

(***************************************************************************)
(* ToolConverter alone: a list of tool definitions in the OpenAI format    *)
(* (create_function_schemas parsed, or written by hand) is rendered for    *)
(* Anthropic and for Gemini.  A definition has the function wrapper or is  *)
(* the bare function block; strict, additionalProperties and required are  *)
(* present or absent.                                                      *)
(***************************************************************************)
MaxTools == 2

PropertySets ==
    { [a |-> [type |-> "number", description |-> "first"],
       b |-> [type |-> "number", description |-> "second"]],
      [text |-> [type |-> "string", description |-> "what to print"]],
      [flags |-> [type |-> "array", items |-> [type |-> "boolean"]]] }

ParameterBlocks ==
    UNION { { [type |-> "object", properties |-> ps],
              [type |-> "object", properties |-> ps, required |-> <<>>,
               additionalProperties |-> FALSE] }
            \cup { [type |-> "object", properties |-> ps, required |-> <<n>>,
                    additionalProperties |-> FALSE] : n \in DOMAIN ps }
            \cup UNION { { [type |-> "object", properties |-> ps, required |-> <<n, m>>] :
                               m \in DOMAIN ps \ {n} } : n \in DOMAIN ps }
            : ps \in PropertySets }

FunctionBlocks ==
    { [name |-> "add_numbers", description |-> "adds two numbers together",
       strict |-> FALSE, parameters |-> ps] : ps \in ParameterBlocks }
        \cup { [name |-> "print_text", description |-> "", parameters |-> ps] :
                   ps \in ParameterBlocks }

ToolDefinitions ==
    FunctionBlocks \cup { [type |-> "function", function |-> f] : f \in FunctionBlocks }

\* the schema lists the converter is given
SchemaLists == SeqsUpTo(ToolDefinitions, MaxTools)

ConverterInit ==
    /\ api = "A"
    /\ messages = <<>>
    /\ registered_functions = [n \in {} |-> n]
    /\ processed_tool_ids = {}
    /\ pc = "idle"
    /\ futures = <<>>
    /\ idx = 0
    /\ outcome = NoOutcome
    /\ callStart = <<>>
    /\ turnStart = 0
    /\ doneOrder = <<>>
    /\ running = 0
    /\ answered = <<>>
    /\ sessionIds = {}
    /\ wasReset = FALSE
    /\ appended = 0
    /\ toolFree = FALSE
    /\ lastPrompt = ""
    /\ lastRegistered = [n \in {} |-> n]
    /\ lastCall = NoCall
    /\ tools = <<>>
    /\ sent = <<>>
    /\ reply = NoReply
    /\ response = NoResponse
    /\ openai_schema \in SchemaLists
    /\ converted = NotConverted

\* anthropic_schema = converter.convert_openai_to_anthropic(openai_schema)
CallConvertOpenAIToAnthropic ==
    /\ converted' = [to |-> "anthropic", schema |-> ConvertOpenAIToAnthropic(openai_schema)]
    /\ UNCHANGED <<openai_schema, messages, appended, lastCall, controllerVars, adapterVars>>

\* gemini_schema = converter.convert_openai_to_gemini(openai_schema)
CallConvertOpenAIToGemini ==
    /\ converted' = [to |-> "gemini", schema |-> ConvertOpenAIToGemini(openai_schema)]
    /\ UNCHANGED <<openai_schema, messages, appended, lastCall, controllerVars, adapterVars>>

ConverterNext ==
    \/ CallConvertOpenAIToAnthropic
    \/ CallConvertOpenAIToGemini

ConverterSpec == ConverterInit /\ [][ConverterNext]_vars

(***************************************************************************)
(* Vocabulary of the properties.                                           *)
(***************************************************************************)
ToolUses(content) == SelectType(content, "tool_use")

IsToolMessage(m) == m.role = "tool"

\* the text a tool message carries
ToolText(m) == m.content[1].text

\* a turn is recorded: its assistant message is messages[turnStart]
InTurn == turnStart > 0

\* the calls behind the futures of the turn, in submission order
CallsOf(fs) == [k \in 1..Len(fs) |-> ToolUseBlock(fs[k].id, fs[k].name, fs[k].input)]

\* the ids the loop of line 76 has marked processed in this turn
MarkedInTurn ==
    { futures[k].id : k \in 1..(idx - 1) }
        \cup (IF pc = "unwind" THEN {futures[idx].id} ELSE {})

\* the k-th future's tool message is the k-th message after the assistant message
ReplyInPlace(k) ==
    /\ turnStart + k <= Len(messages)
    /\ IsToolMessage(messages[turnStart + k])
    /\ messages[turnStart + k].tool_call_id = futures[k].id

\* some tool message of the Conversation answers id
Answered(id) ==
    \E j \in 1..Len(messages) : IsToolMessage(messages[j]) /\ messages[j].tool_call_id = id

\* json.loads(text) = data, for the payloads json.dumps can produce
LoadsTo(text, data) == JsonSerializable(data) /\ JsonDumps(data) = text

(***************************************************************************)
(* C1: within one adapter session the Conversation never holds two tool    *)
(* messages with the same tool_call_id, also when an id occurs in two      *)
(* tool_use blocks of one response.                                        *)
(***************************************************************************)
C1_OneReplyPerId ==
    \A i, j \in 1..Len(answered) : i # j => answered[i] # answered[j]

(***************************************************************************)
(* C2: the tool messages of a turn are appended in the order of the        *)
(* unprocessed tool calls of the response, whatever the completion order:  *)
(* at every moment they answer the first idx - 1 calls, in order, and the  *)
(* next generate is reached only when they answer all of them.             *)
(***************************************************************************)
C2_ResultOrder ==
    InTurn =>
        /\ messages[turnStart].role = "assistant"
        /\ CallsOf(futures) =
               ToProcess(ToolUses(messages[turnStart].content),
                         processed_tool_ids \ MarkedInTurn)
        /\ idx \in 1..(Len(futures) + 1)
        /\ Len(messages) = turnStart + idx - 1
        /\ \A k \in 1..(idx - 1) : ReplyInPlace(k)
        /\ pc = "generate" => idx = Len(futures) + 1

\* both replies of a two-call turn are appended and the second call finished first
C2_Witness ==
    /\ pc = "collect"
    /\ Len(futures) = 2
    /\ futures[1].id # futures[2].id
    /\ doneOrder = <<2, 1>>
    /\ idx = 3

(***************************************************************************)
(* C3: when send_user_message has returned a final answer (and reset has   *)
(* discarded no message), every tool_use block of every                    *)
(* assistant message has a tool message with its id.                       *)
(***************************************************************************)
C3_NoUnresolvedAtReturn ==
    (pc = "idle" /\ outcome.kind = "answer" /\ ~wasReset) =>
        \A i \in 1..Len(messages) :
            messages[i].role = "assistant" =>
                \A b \in 1..Len(messages[i].content) :
                    messages[i].content[b].type = "tool_use" =>
                        Answered(messages[i].content[b].id)

(***************************************************************************)
(* C4: no tool call is executing when generate is called or when the       *)
(* controller returns or raises, and the generate that follows a dispatch  *)
(* finds every dispatched call finished and answered by its tool message.  *)
(***************************************************************************)
C4_DispatchBarrier ==
    /\ pc \in {"generate", "idle"} => running = 0
    /\ (pc = "generate" /\ InTurn) =>
           /\ Len(messages) = turnStart + Len(futures)
           /\ \A k \in 1..Len(futures) : futures[k].state = "done" /\ ReplyInPlace(k)

\* the next generate is due after a turn that dispatched two calls
C4_Witness ==
    /\ pc = "generate"
    /\ InTurn
    /\ Len(futures) = 2
    /\ Len(doneOrder) = 0
    /\ IsToolMessage(messages[Len(messages)])

\* what line 79 makes of the k-th future's own result
OwnText(k) == ResultStr(futures[k].result.data).str

\* the name of the k-th call of the turn is not registered
UnknownCall(k) == futures[k].name \notin DOMAIN registered_functions

(***************************************************************************)
(* C5: in a turn with several dispatched calls of which one callable       *)
(* raises, that call is answered by {"error": "Error executing <name>:     *)
(* <message>"}, every other call is answered by its own result, and the    *)
(* loop goes on to the next generate instead of raising.                   *)
(***************************************************************************)
C5_FailureIsolation ==
    (InTurn /\ Len(futures) >= 2 /\ \E k \in 1..Len(futures) : futures[k].does = "raise") =>
        /\ pc # "unwind"
        /\ \A k \in 1..Len(futures) :
               futures[k].does = "raise" =>
                   futures[k].result.data =
                       ErrorData("Error executing " \o futures[k].name \o ": boom")
        /\ \A k \in 1..(idx - 1) :
               ReplyInPlace(k) /\ ToolText(messages[turnStart + k]) = OwnText(k)

(***************************************************************************)
(* C6: a call that names an unregistered function is answered by a tool    *)
(* message with the call's id whose content deserializes to                *)
(* {"error": "Unknown tool '<name>'"}; its id is marked processed and      *)
(* taking its result does not raise.                                       *)
(***************************************************************************)
C6_UnknownToolAsData ==
    InTurn =>
        \A k \in 1..Len(futures) :
            (UnknownCall(k) /\ futures[k].state = "done") =>
                /\ ~(pc = "unwind" /\ idx = k)
                /\ k < idx =>
                       /\ ReplyInPlace(k)
                       /\ LoadsTo(ToolText(messages[turnStart + k]),
                                  ErrorData("Unknown tool '" \o futures[k].name \o "'"))
                       /\ futures[k].id \in processed_tool_ids

\* only add is registered, a call named multiply was answered, generate is next
C6_Witness ==
    /\ pc = "generate"
    /\ InTurn
    /\ DOMAIN registered_functions = {"add"}
    /\ \E k \in 1..Len(futures) :
           /\ futures[k].name = "multiply"
           /\ ReplyInPlace(k)
           /\ ToolText(messages[turnStart + k]) = "{\"error\": \"Unknown tool 'multiply'\"}"

(***************************************************************************)
(* C7: no outcome of a registered tool callable makes send_user_message    *)
(* raise: the call raises only what generate raised, and the loop never    *)
(* leaves the pool on an exception.                                        *)
(***************************************************************************)
C7_ToolOutcomesNotFatal ==
    /\ pc # "unwind"
    /\ outcome.kind = "raised" => outcome.error \in ApiErrors

(***************************************************************************)
(* C8: set_model empties the processed-id set, so the set holds exactly    *)
(* the ids processed under the current adapter, and a tool_use block whose *)
(* id was processed only under an earlier adapter is dispatched again.     *)
(***************************************************************************)
C8_SessionScope ==
    /\ processed_tool_ids = sessionIds
    /\ InTurn =>
           \A b \in 1..Len(messages[turnStart].content) :
               LET block == messages[turnStart].content[b]
               IN (block.type = "tool_use" /\ block.id \notin (sessionIds \ MarkedInTurn)) =>
                      \E k \in 1..Len(futures) : futures[k].id = block.id

\* an id answered before the latest set_model has been executed again
C8_Witness ==
    \E k \in 1..Len(futures) :
        /\ futures[k].state = "done"
        /\ Answered(futures[k].id)
        /\ \A i \in 1..Len(answered) : answered[i] # futures[k].id
        /\ ~wasReset

(***************************************************************************)
(* C9: when generate raises, the caller gets that exception and the        *)
(* Conversation is left as it was at the failing generate call: the        *)
(* Conversation of before the call, the user message, and the assistant    *)
(* and tool messages of the iterations completed before the failure.       *)
(***************************************************************************)
C9_NoRollback ==
    [][(pc = "generate" /\ pc' = "idle" /\ outcome'.kind = "raised") =>
           /\ outcome'.error \in ApiErrors
           /\ messages' = messages
           /\ Len(messages) > Len(callStart)
           /\ SubSeq(messages, 1, Len(callStart)) = callStart
           /\ messages[Len(callStart) + 1].role = "user"
           /\ \A i \in (Len(callStart) + 2)..Len(messages) :
                  messages[i].role \in {"assistant", "tool"}]_vars

\* generate has failed after an iteration that appended a tool message
C9_Witness ==
    /\ pc = "idle"
    /\ outcome.kind = "raised"
    /\ outcome.error \in ApiErrors
    /\ Len(messages) >= 3
    /\ IsToolMessage(messages[Len(messages)])

(***************************************************************************)
(* C10: system prompt "You compute sums.", user message "What is 2+3?",    *)
(* the first response is one tool_use block {add, {a: 2, b: 3}} and add    *)
(* returns 5: the Conversation handed to the second generate call holds a  *)
(* tool message for the call.  C10_ContentIsFive states its content as the *)
(* claim does, "5"; C10_ContentIsWrapped as the JSON text {"result": "5"}. *)
(***************************************************************************)
C10_Scenario ==
    /\ pc = "generate"
    /\ InTurn
    /\ callStart = <<SystemMessage("You compute sums.")>>
    /\ turnStart = 3
    /\ messages[2] = [role |-> "user", content |-> <<TextBlock("What is 2+3?")>>]
    /\ Len(futures) = 1
    /\ messages[3].content = <<ToolUseBlock(futures[1].id, "add", [a |-> 2, b |-> 3])>>
    /\ futures[1].does = "return"

C10_ContentIsFive ==
    C10_Scenario =>
        \E i \in 1..Len(GenerateInput) : GenerateInput[i] = ToolMessage(futures[1].id, "5")

C10_ContentIsWrapped ==
    C10_Scenario =>
        \E i \in 1..Len(GenerateInput) :
            GenerateInput[i] = ToolMessage(futures[1].id, "{\"result\": \"5\"}")

(***************************************************************************)
(* C11: a response without tool_use blocks ends the call in the iteration  *)
(* that received it, whatever its stop_reason: the loop is never about to  *)
(* call generate again after such a response.                              *)
(***************************************************************************)
C11_ToolFreeReturns == pc = "generate" => ~toolFree

\* the system messages of a Conversation
SystemPositions(msgs) == { i \in 1..Len(msgs) : msgs[i].role = "system" }

(***************************************************************************)
(* C12: under set_system_prompt, send_user_message with its tool           *)
(* iterations, and reset, the Conversation holds at most one system        *)
(* message; when present it is the first message and carries the text of   *)
(* the latest set_system_prompt call; a call made while a system message   *)
(* exists changes neither the length nor any other message.                *)
(***************************************************************************)
C12_SingleSystemMessage ==
    [][/\ Cardinality(SystemPositions(messages')) <= 1
       /\ HasSystem(messages') => messages'[1] = SystemMessage(lastPrompt')
       /\ lastPrompt' # "" => HasSystem(messages')
       /\ (HasSystem(messages) /\ \E t \in SystemPrompts : SetSystemPrompt(t)) =>
              /\ Len(messages') = Len(messages)
              /\ \A i \in 2..Len(messages) : messages'[i] = messages[i]]_vars

\* the prompt was replaced after a tool iteration: the Conversation holds a tool
\* message and its system message carries the second text set
C12_Witness ==
    /\ pc = "idle"
    /\ Len(messages) >= 4
    /\ messages[1] = SystemMessage("Be brief.")
    /\ messages[2].role = "user"
    /\ IsToolMessage(messages[4])
    /\ lastPrompt = "Be brief."

(***************************************************************************)
(* C20: a tool call with name n executes the callable registered last      *)
(* under n by register_function or register_functions, never one that was  *)
(* registered under n before it; a name never registered executes none.    *)
(***************************************************************************)
C20_LastRegistrationWins ==
    \A k \in 1..Len(futures) :
        futures[k].state = "done" =>
            futures[k].impl =
                (IF futures[k].name \in DOMAIN lastRegistered
                 THEN lastRegistered[futures[k].name] ELSE "")

\* add was registered twice by one register_functions call and the second
\* callable answered a call
C20_Witness ==
    \E k \in 1..Len(futures) :
        /\ futures[k].name = "add"
        /\ futures[k].impl = "add#2"
        /\ futures[k].does = "return"
        /\ k < idx
        /\ ReplyInPlace(k)

\* the messages of a Conversation that are not system messages, in order
NonSystem(msgs) == SelectSeq(msgs, LAMBDA m : m.role # "system")

IsPrefix(a, b) == Len(a) <= Len(b) /\ SubSeq(b, 1, Len(a)) = a

\* the argument of a tool append is not a mapping with tool_call_id and content
Malformed(arg) ==
    ~(arg.py = "dict" /\ "tool_call_id" \in DOMAIN arg.d /\ "content" \in DOMAIN arg.d)

(***************************************************************************)
(* C13: set_system_prompt(t) called directly after set_system_prompt(t)    *)
(* leaves the Conversation as the first call left it, in every             *)
(* Conversation the MessageHandler methods can build.                      *)
(***************************************************************************)
C13_SetSystemPromptIdempotent ==
    [][(lastCall'.op = "set_system_prompt" /\ lastCall'.again) => messages' = messages]_vars

\* the same prompt was set twice in a row in a Conversation with other messages
C13_Witness ==
    /\ lastCall.op = "set_system_prompt"
    /\ lastCall.again
    /\ Len(messages) >= 2
    /\ messages[1] = SystemMessage(lastCall.text)

(***************************************************************************)
(* C14: append_message with role tool and an argument that is not a        *)
(* mapping holding both tool_call_id and content raises and leaves the     *)
(* Conversation unchanged.                                                 *)
(***************************************************************************)
C14_MalformedToolRejected ==
    [][(/\ lastCall'.op = "append_message"
        /\ lastCall'.role = "tool"
        /\ Malformed(lastCall'.arg)) =>
           (lastCall'.raised /\ messages' = messages)]_vars

\* a tool append without content was rejected in a Conversation that holds messages
C14_Witness ==
    /\ lastCall.op = "append_message"
    /\ lastCall.role = "tool"
    /\ lastCall.arg = ArgDict([tool_call_id |-> "t1"])
    /\ lastCall.raised
    /\ Len(messages) >= 1

Invocations(adapter, body) ==
    CASE adapter = "anthropic" ->
           LET uses == SelectSeq(body.content, LAMBDA b : b.type = "tool_use")
           IN [i \in 1..Len(uses) |-> [name |-> uses[i].name, input |-> uses[i].input]]
      [] adapter = "gemini" ->
           LET calls == SelectSeq(body.parts, LAMBDA q : q.function_call.name # "")
           IN [i \in 1..Len(calls) |->
                  [name |-> calls[i].function_call.name, input |-> calls[i].function_call.args]]
      [] OTHER ->
           [i \in 1..Len(body.message.tool_calls) |->
               [name |-> body.message.tool_calls[i].name,
                input |-> JsonLoads(body.message.tool_calls[i].arguments).value]]

(***************************************************************************)
(* C16: whatever the backend replies, the stop_reason an adapter returns   *)
(* is tool_use exactly if the returned content holds a tool_use block, and *)
(* the tool_use blocks are the invocations of the reply, one block each,   *)
(* in order.                                                               *)
(***************************************************************************)
C16_StopReasonConsistent ==
    (response.kind = "returned" /\ reply.kind = "reply") =>
        LET uses == ToolUses(response.content)
            calls == Invocations(api, reply.body)
        IN /\ (response.stop_reason = "tool_use") <=> (uses # <<>>)
           /\ Len(uses) = Len(calls)
           /\ \A i \in 1..Len(uses) :
                  uses[i].name = calls[i].name /\ uses[i].input = calls[i].input

\* a reply with a text and a function call has been normalized by the adapter
\* that computes has_tool_calls part by part
C16_Witness ==
    /\ api = "gemini"
    /\ pc = "returned"
    /\ response.kind = "returned"
    /\ response.stop_reason = "tool_use"
    /\ Len(response.content) = 2
    /\ Len(ToolUses(response.content)) = 1

(***************************************************************************)
(* C17: the tool_use blocks an adapter returns for the distinct            *)
(* invocations of one reply carry distinct, non-empty ids, also for the    *)
(* backend that supplies no id.                                            *)
(***************************************************************************)
C17_DistinctIds ==
    response.kind = "returned" =>
        LET uses == ToolUses(response.content)
        IN \A i, j \in 1..Len(uses) :
               uses[i].id # "" /\ (i # j => uses[i].id # uses[j].id)

\* the turns of a backend request: its messages other than the system message,
\* or the one message a request without a message list carries
RequestTurns(request) ==
    IF "messages" \in DOMAIN request
    THEN SelectSeq(request.messages, LAMBDA t : t.role # "system")
    ELSE <<[role |-> "user", content |-> request.message]>>

\* the system prompt a backend request carries, "" for none
RequestSystem(request) ==
    IF "system" \in DOMAIN request THEN request.system
    ELSE IF "messages" \in DOMAIN request
              /\ \E i \in 1..Len(request.messages) : request.messages[i].role = "system"
         THEN request.messages[CHOOSE i \in 1..Len(request.messages) :
                                   request.messages[i].role = "system"].content
         ELSE ""

\* the text of the system message of a Conversation, "" for none
SystemText(msgs) ==
    IF HasSystem(msgs) THEN msgs[FirstSystem(msgs)].content[1].text ELSE ""

(***************************************************************************)
(* C18: the request an adapter sends to the backend carries the system     *)
(* prompt of the Conversation generate was given and one turn for every    *)
(* non-system message of it, in order.                                     *)
(***************************************************************************)
C18_FullHistory ==
    sent # <<>> =>
        LET request == sent[Len(sent)]
            turns == NonSystem(messages)
        IN /\ RequestSystem(request) = SystemText(messages)
           /\ Len(RequestTurns(request)) = Len(turns)
           /\ \A i \in 1..Len(turns) :
                  RequestTurns(request)[i].role \in {turns[i].role, "user"}

(***************************************************************************)
(* C19: a generate call sends at most one request to the backend; when     *)
(* the backend call fails, generate raises that error, the controller      *)
(* raises it to the caller and neither sends a request nor calls generate  *)
(* again.                                                                  *)
(***************************************************************************)
C19_NoRetry ==
    [][/\ Len(sent') <= 1
       /\ reply'.kind = "error" => response' = Raised(reply'.error)
       /\ response.kind = "raised" =>
              /\ pc' = "idle"
              /\ outcome' = Raised(response.error)
              /\ sent' = sent]_vars

\* the backend failed in the generate call that followed a tool turn, and the
\* caller got its error
C19_Witness ==
    /\ pc = "idle"
    /\ reply.kind = "error"
    /\ outcome = Raised(reply.error)
    /\ Len(sent) = 1
    /\ processed_tool_ids # {}
    /\ IsToolMessage(messages[Len(messages)])

RECURSIVE B64Decode(_)
\* base64.b64decode: the bytes of a base64 text
B64Decode(chars) ==
    LET val(c) == IF c = "=" THEN 0
                  ELSE (CHOOSE i \in 1..64 : Base64Alphabet[i] = c) - 1
    IN IF Len(chars) < 4 THEN <<>>
       ELSE LET n == val(chars[1]) * 262144 + val(chars[2]) * 4096
                         + val(chars[3]) * 64 + val(chars[4])
                group == <<n \div 65536, (n \div 256) % 256, n % 256>>
            IN IF chars[3] = "=" THEN SubSeq(group, 1, 1)
               ELSE IF chars[4] = "=" THEN SubSeq(group, 1, 2)
                    ELSE group \o B64Decode(SubSeq(chars, 5, Len(chars)))

\* the message a successful append_image call has to append
ImageAppended(role, image_path, text_comment) ==
    /\ Len(messages') = Len(messages) + 1
    /\ SubSeq(messages', 1, Len(messages)) = messages
    /\ LET m == messages'[Len(messages')]
       IN /\ m.role = role
          /\ DOMAIN m = {"role", "content"}
          /\ Len(m.content) = (IF text_comment # "" THEN 2 ELSE 1)
          /\ m.content[1].type = "image"
          /\ m.content[1].source.type = "base64"
          /\ Len(m.content[1].source.data) % 4 = 0
          /\ B64Decode(m.content[1].source.data) = FileBytes(image_path)
          /\ m.content[1].source.media_type =
                 (IF GuessType(image_path) = "" THEN "image/jpeg" ELSE GuessType(image_path))
          /\ text_comment # "" => m.content[2] = TextBlock(text_comment)

(***************************************************************************)
(* C21 as stated: append_image on an existing image file appends, for      *)
(* whatever role it is given, one message of that role holding the image   *)
(* block (base64 of the file's bytes, media type) and, when a caption is    *)
(* given, the caption as a text block after it.                            *)
(***************************************************************************)
C21_AnyRole ==
    [][(lastCall'.op = "append_image" /\ lastCall'.image_path \in ImageFiles) =>
           /\ ~lastCall'.raised
           /\ ImageAppended(lastCall'.role, lastCall'.image_path,
                            lastCall'.text_comment)]_vars

(***************************************************************************)
(* C21: append_image on an existing image file with a role other than tool *)
(* appends one message of that role holding the image block (base64 of the *)
(* file's bytes, the media type guessed from the file name, image/jpeg     *)
(* when there is none) and, when a caption is given, the caption as a text *)
(* block after it; with role tool, or a missing file, it raises and        *)
(* appends nothing.                                                        *)
(***************************************************************************)
C21_ImageAppendShape ==
    [][lastCall'.op = "append_image" =>
           IF lastCall'.image_path \in ImageFiles /\ lastCall'.role # "tool"
           THEN /\ ~lastCall'.raised
                /\ ImageAppended(lastCall'.role, lastCall'.image_path,
                                 lastCall'.text_comment)
           ELSE lastCall'.raised /\ messages' = messages]_vars

\* a captioned image without a usable file extension was appended to a
\* Conversation that holds a message
C21_Witness ==
    /\ lastCall.op = "append_image"
    /\ lastCall.image_path = "scan"
    /\ lastCall.text_comment = "look"
    /\ ~lastCall.raised
    /\ Len(messages) >= 2
    /\ Len(messages[Len(messages)].content) = 2
    /\ messages[Len(messages)].content[1].source.media_type = "image/jpeg"

\* the set of the elements of a list
Elements(list) == { list[i] : i \in 1..Len(list) }

\* the type of every property of a properties object
PropertyTypes(properties) == [n \in DOMAIN properties |-> properties[n].type]

\* the canonical definition {name, description, required set, property types}
\* of a function block with its parameters object
Canonical(block, parameters) ==
    [name |-> block.name,
     description |-> block.description,
     required |-> IF "required" \in DOMAIN parameters THEN Elements(parameters.required)
                  ELSE {},
     types |-> PropertyTypes(parameters.properties)]

\* the canonical definition read from a definition of the OpenAI format
FromOpenAI(tool) ==
    LET block == IF "function" \in DOMAIN tool THEN tool.function ELSE tool
    IN Canonical(block, block.parameters)

\* the canonical definition read back from a rendering
Reconstructed(to, tool) ==
    IF to = "anthropic" THEN Canonical(tool, tool.input_schema)
    ELSE Canonical(tool.function, tool.function.parameters)

(***************************************************************************)
(* C22: the list convert_openai_to_anthropic or convert_openai_to_gemini   *)
(* returns has one definition per definition given, in order, and the      *)
(* canonical definition read back from each (name, description, set of     *)
(* required fields, type of every property) is the one of the definition   *)
(* it was made from, the required set being empty when the definition has  *)
(* no required list.                                                       *)
(***************************************************************************)
C22_DefinitionPreserved ==
    converted.to # "none" =>
        /\ Len(converted.schema) = Len(openai_schema)
        /\ \A i \in 1..Len(openai_schema) :
               Reconstructed(converted.to, converted.schema[i]) = FromOpenAI(openai_schema[i])

\* a list of a bare function block with two required fields and a wrapped
\* definition without a required list has been rendered for Anthropic
C22_Witness ==
    /\ converted.to = "anthropic"
    /\ Len(openai_schema) = 2
    /\ "function" \notin DOMAIN openai_schema[1]
    /\ "required" \in DOMAIN openai_schema[1].parameters
    /\ Len(openai_schema[1].parameters.required) = 2
    /\ "function" \in DOMAIN openai_schema[2]
    /\ "required" \notin DOMAIN openai_schema[2].function.parameters
    /\ converted.schema[2].input_schema.required = <<>>

(***************************************************************************)
(* C23: the step that receives a response with a tool_use block appends    *)
(* one message, the assistant message whose blocks are the returned        *)
(* content in the returned order, and records it as the start of the turn; *)
(* while the iteration lasts every message after it is a tool message,     *)
(* so no tool message of the iteration precedes it and no second assistant *)
(* message follows it.                                                     *)
(***************************************************************************)
C23_AssistantTurnWhole ==
    [][/\ \A content \in Contents, stop_reason \in StopReasons :
              GenerateToolUse(content, stop_reason) =>
                  /\ messages' = Append(messages, [role |-> "assistant", content |-> content])
                  /\ turnStart' = Len(messages')
       /\ (pc = "generate" /\ Len(messages') > Len(messages)) =>
              \E content \in Contents, stop_reason \in StopReasons :
                  GenerateToolUse(content, stop_reason)
       /\ (pc \in {"collect", "unwind"} /\ pc' # "idle") =>
              /\ turnStart' = turnStart
              /\ messages'[turnStart] = messages[turnStart]
              /\ \A i \in (turnStart + 1)..Len(messages') : IsToolMessage(messages'[i])]_vars

\* the assistant message of the turn holds a text block before its tool_use
\* block, and the tool message of the call follows it
C23_Witness ==
    /\ pc = "collect"
    /\ InTurn
    /\ Len(messages[turnStart].content) = 2
    /\ messages[turnStart].content[1].type = "text"
    /\ messages[turnStart].content[2].type = "tool_use"
    /\ Len(messages) = turnStart + 1
    /\ IsToolMessage(messages[turnStart + 1])

\* the number of user messages of a Conversation
UserCount(msgs) == Cardinality({ i \in 1..Len(msgs) : msgs[i].role = "user" })

(***************************************************************************)
(* C24: the step that enters send_user_message appends one message, the    *)
(* user message with the caller's text, and leads to the first generate    *)
(* call of the call; no step of the call in progress, through however many *)
(* tool iterations, changes the number of user messages.                   *)
(***************************************************************************)
C24_InputAppendedOnce ==
    [][/\ (pc = "idle" /\ pc' # "idle") =>
              /\ pc' = "generate"
              /\ \E user_text \in UserTexts :
                     messages' = Append(messages, [role |-> "user",
                                                   content |-> <<TextBlock(user_text)>>])
       /\ pc # "idle" => UserCount(messages') = UserCount(messages)]_vars

\* the third generate call of a call is due: two tool iterations have passed
\* and the Conversation holds the one user message of the call
C24_Witness ==
    /\ pc = "generate"
    /\ InTurn
    /\ Len(messages) = Len(callStart) + 5
    /\ UserCount(messages) = UserCount(callStart) + 1
    /\ messages[Len(callStart) + 1].role = "user"

(***************************************************************************)
(* C25: in a turn, a tool_use block whose id was marked processed in an    *)
(* earlier iteration of the adapter session has no future (its callable is *)
(* not executed) and no tool message of the turn answers it; every other   *)
(* tool_use block of the same response has a future with its name and      *)
(* input.                                                                  *)
(***************************************************************************)
C25_ResentSkipped ==
    InTurn =>
        LET earlier == sessionIds \ MarkedInTurn
            content == messages[turnStart].content
        IN \A b \in 1..Len(content) :
               content[b].type = "tool_use" =>
                   IF content[b].id \in earlier
                   THEN /\ \A k \in 1..Len(futures) : futures[k].id # content[b].id
                        /\ \A i \in (turnStart + 1)..Len(messages) :
                               messages[i].tool_call_id # content[b].id
                   ELSE \E k \in 1..Len(futures) :
                            /\ futures[k].id = content[b].id
                            /\ futures[k].name = content[b].name
                            /\ futures[k].input = content[b].input

\* a response resent the call answered in the iteration before next to a new
\* call: only the new call was executed and answered
C25_Witness ==
    /\ pc = "collect"
    /\ InTurn
    /\ ~wasReset
    /\ Len(ToolUses(messages[turnStart].content)) = 2
    /\ messages[turnStart].content[1].id \in sessionIds \ MarkedInTurn
    /\ Answered(messages[turnStart].content[1].id)
    /\ Len(futures) = 1
    /\ futures[1].id = messages[turnStart].content[2].id
    /\ futures[1].does = "return"
    /\ idx = 2
    /\ ReplyInPlace(1)

(***************************************************************************)
(* C26: every send_user_message call starts at a generate call; a tool     *)
(* dispatch (the pool with its collecting loop) is left only towards the   *)
(* next generate call; and the call ends with a final answer only from a   *)
(* generate call, so the answer follows the last tool message.             *)
(***************************************************************************)
C26_AnswerFromGenerate ==
    [][/\ (pc = "idle" /\ pc' # "idle") => pc' = "generate"
       /\ pc \in {"collect", "unwind"} => pc' \in {"collect", "unwind", "generate"}
       /\ (pc # "idle" /\ pc' = "idle" /\ outcome'.kind = "answer") =>
              pc = "generate" /\ messages' = messages]_vars

\* the number of tool messages of a Conversation
ToolCount(msgs) == Cardinality({ i \in 1..Len(msgs) : IsToolMessage(msgs[i]) })

(***************************************************************************)
(* C27: a step of a worker thread (it runs _execute_tool and completes its *)
(* future) changes neither the processed-id set nor the Conversation; an   *)
(* id enters the set, and a tool message enters the Conversation, only in  *)
(* a step of the collecting loop of the driving thread, for the future the *)
(* loop is at, which has completed.                                        *)
(***************************************************************************)
C27_DrivingThreadOnly ==
    [][/\ (\E k \in 1..Len(futures), does \in Behaviours \cup {""} : RunTool(k, does)) =>
              /\ processed_tool_ids' = processed_tool_ids
              /\ messages' = messages
       /\ (\/ processed_tool_ids' \ processed_tool_ids # {}
           \/ ToolCount(messages') > ToolCount(messages)) =>
              /\ pc = "collect"
              /\ futures' = futures
              /\ idx <= Len(futures)
              /\ futures[idx].state = "done"
              /\ processed_tool_ids' = processed_tool_ids \cup {futures[idx].id}
              /\ ToolCount(messages') > ToolCount(messages) =>
                     messages' = Append(messages, messages'[Len(messages')])
                         /\ messages'[Len(messages')].tool_call_id = futures[idx].id]_vars

\* the worker of the second call has finished while the driving thread has
\* merged the first result only: the second id is not processed, its tool
\* message not appended
C27_Witness ==
    /\ pc = "collect"
    /\ Len(futures) = 2
    /\ idx = 2
    /\ futures[2].state = "done"
    /\ futures[1].id \in processed_tool_ids
    /\ futures[2].id \notin processed_tool_ids
    /\ ReplyInPlace(1)
    /\ Len(messages) = turnStart + 1

\* the call the work queue hands out next
NextInQueue(k) ==
    /\ futures[k].state = "pending"
    /\ \A j \in 1..(k - 1) : futures[j].state # "pending"

(***************************************************************************)
(* C28 as stated: during the collecting loop the pool holds a future for   *)
(* every unprocessed call of the response, from before the first result is *)
(* taken, and a call that has not started can always start: it never has   *)
(* to wait for another call of the turn to complete.                       *)
(***************************************************************************)
C28_NoCallWaits ==
    (pc = "collect" /\ InTurn) =>
        /\ CallsOf(futures) =
               ToProcess(ToolUses(messages[turnStart].content),
                         processed_tool_ids \ MarkedInTurn)
        /\ \A k \in 1..Len(futures) : NextInQueue(k) => ENABLED StartTool(k)

(***************************************************************************)
(* C28: during the collecting loop the pool holds a future for every       *)
(* unprocessed call of the response, from before the first result is taken *)
(* or the first tool message appended; in a turn of at most max_workers    *)
(* calls, a call that has not started can always start, whatever the other *)
(* calls of the turn are doing.                                            *)
(***************************************************************************)
C28_DispatchBeforeAwait ==
    (pc = "collect" /\ InTurn) =>
        /\ CallsOf(futures) =
               ToProcess(ToolUses(messages[turnStart].content),
                         processed_tool_ids \ MarkedInTurn)
        /\ Len(futures) <= MaxWorkers =>
               \A k \in 1..Len(futures) : NextInQueue(k) => ENABLED StartTool(k)

\* every call of a turn of max_workers calls is executing and no result has
\* been taken
C28_Witness ==
    /\ pc = "collect"
    /\ InTurn
    /\ Len(futures) = MaxWorkers
    /\ Busy = 1..Len(futures)
    /\ idx = 1
    /\ Len(messages) = turnStart

\* what the callable behind the k-th future returned
ReturnedValue(k) ==
    Call(registered_functions[futures[k].name], futures[k].input, futures[k].does).value

(***************************************************************************)
(* C29: the result block of a completed call carries the id the call was   *)
(* submitted with; when the callable is registered and has returned, the   *)
(* payload is the returned value itself if it is a mapping, and            *)
(* {"result": str(value)} for every other value.                           *)
(***************************************************************************)
C29_ResultWrapping ==
    \A k \in 1..Len(futures) :
        futures[k].state = "done" =>
            /\ futures[k].result.type = "tool_result"
            /\ futures[k].result.tool_use_id = futures[k].id
            /\ (futures[k].impl # "" /\ futures[k].does # "raise") =>
                   futures[k].result.data =
                       (IF IsDict(ReturnedValue(k)) THEN ReturnedValue(k)
                        ELSE PyDict(<< <<"result", PyStr(StrOf(ReturnedValue(k)))>> >>))

\* in one turn a callable returned None and another an empty mapping: the
\* first payload is {"result": "None"}, the second the empty mapping
C29_Witness ==
    /\ pc = "collect"
    /\ Len(futures) = 2
    /\ futures[1].does = "none"
    /\ futures[1].result = [type |-> "tool_result", tool_use_id |-> futures[1].id,
                            data |-> PyDict(<< <<"result", PyStr("None")>> >>)]
    /\ futures[2].does = "empty"
    /\ futures[2].result.data = PyDict(<<>>)
    /\ futures[2].result.tool_use_id = futures[2].id
    /\ futures[1].id # futures[2].id

\* a text block that has non-empty text
HasText(block) == block.type = "text" /\ "text" \in DOMAIN block /\ block.text # ""

\* the texts of the first n of the blocks, each after the first preceded by
\* one space
RECURSIVE SpaceJoined(_, _)
SpaceJoined(blocks, n) ==
    IF n = 0 THEN ""
    ELSE IF n = 1 THEN blocks[1].text
         ELSE SpaceJoined(blocks, n - 1) \o " " \o blocks[n].text

(***************************************************************************)
(* C30: when the loop returns, the returned string is the texts of the     *)
(* response's text blocks with non-empty text, in response order, joined   *)
(* by single spaces; it is "" when the response has no such block.         *)
(***************************************************************************)
C30_FinalAnswerValue ==
    [][\A content \in AnswerContents \cup Contents, stop_reason \in StopReasons :
          (GenerateText(content, stop_reason) /\ pc' = "idle") =>
              LET spoken == SelectSeq(content, HasText)
              IN /\ outcome' = Answer(SpaceJoined(spoken, Len(spoken)))
                 /\ (spoken = <<>>) => outcome'.text = ""]_vars

\* the loop has returned "hi there": the response carried the texts "hi" and
\* "there" in this order, with or without empty text blocks around them
C30_Witness ==
    /\ pc = "idle"
    /\ outcome = Answer("hi there")

\* the text parts and the tool invocations of a backend reply, in the backend's
\* order; a text part that is blank is no text part
ReplyParts(adapter, body) ==
    CASE adapter = "anthropic" ->
           LET kept == SelectSeq(body.content,
                                 LAMBDA b : b.type = "tool_use" \/ Strip(b.text) # "")
           IN [i \in 1..Len(kept) |->
                  IF kept[i].type = "tool_use"
                  THEN [call |-> kept[i].name, input |-> kept[i].input]
                  ELSE [text |-> Strip(kept[i].text)]]
      [] adapter = "gemini" ->
           LET kept == SelectSeq(body.parts,
                                 LAMBDA q : q.function_call.name # "" \/ Strip(q.text) # "")
           IN [i \in 1..Len(kept) |->
                  IF kept[i].text = ""
                  THEN [call |-> kept[i].function_call.name,
                        input |-> kept[i].function_call.args]
                  ELSE [text |-> Strip(kept[i].text)]]
      [] OTHER ->
           (IF Strip(body.message.content) # ""
            THEN <<[text |-> Strip(body.message.content)]>> ELSE <<>>)
               \o [i \in 1..Len(body.message.tool_calls) |->
                      [call |-> body.message.tool_calls[i].name,
                       input |-> JsonLoads(body.message.tool_calls[i].arguments).value]]

\* the texts and the tool invocations of canonical content blocks, in order
BlockParts(content) ==
    [i \in 1..Len(content) |->
        IF content[i].type = "tool_use"
        THEN [call |-> content[i].name, input |-> content[i].input]
        ELSE [text |-> Strip(content[i].text)]]

(***************************************************************************)
(* C31: for every adapter and every backend reply it can normalize, the    *)
(* canonical content blocks generate returns are the text parts and the    *)
(* tool invocations of the reply, all of them, in the backend's order; a   *)
(* text that comes with tool invocations is kept next to the tool_use      *)
(* blocks.                                                                 *)
(***************************************************************************)
C31_ContentKept ==
    (pc = "returned" /\ response.kind = "returned") =>
        BlockParts(response.content) = ReplyParts(api, reply.body)

\* the adapters that render tool messages with a dedicated tool role
ToolRoleAdapters == {"openai", "groq"}

\* a tool message with a missing or empty tool_call_id
Unlabelled(msg) == msg.role = "tool" /\ msg.tool_call_id = ""

\* the message list of the request generate has sent
Wire == sent[Len(sent)].messages

(***************************************************************************)
(* C32: the OpenAI and the Groq adapter send one wire message per          *)
(* Conversation message, in the same order; a tool message becomes         *)
(* {role: tool, tool_call_id: its id, content: its text}, an assistant     *)
(* message with tool_use blocks becomes an assistant message whose         *)
(* tool_calls are its tool_use blocks, one each, same id and name, same    *)
(* order; with a tool message without id in the Conversation the           *)
(* conversion raises and no request is sent.                               *)
(***************************************************************************)
C32_ToolRoleRendering ==
    api \in ToolRoleAdapters =>
        /\ (\E i \in 1..Len(messages) : Unlabelled(messages[i])) =>
               /\ sent = <<>>
               /\ pc # "generate" => response = Raised("ValueError")
        /\ sent # <<>> =>
               /\ Len(Wire) = Len(messages)
               /\ \A i \in 1..Len(messages) :
                      LET msg == messages[i]
                          uses == SelectType(msg.content, "tool_use")
                      IN /\ Wire[i].role = msg.role
                         /\ msg.role = "tool" =>
                                Wire[i] = [role |-> "tool", tool_call_id |-> msg.tool_call_id,
                                           content |-> msg.content[1].text]
                         /\ (msg.role = "assistant" /\ uses # <<>>) =>
                                /\ Len(Wire[i].tool_calls) = Len(uses)
                                /\ \A k \in 1..Len(uses) :
                                       /\ Wire[i].tool_calls[k].id = uses[k].id
                                       /\ Wire[i].tool_calls[k].function.name = uses[k].name

\* a request is out for a Conversation that ends with an assistant message of
\* two tool_use blocks and the tool message of the first
C32_Witness ==
    /\ api = "groq"
    /\ sent # <<>>
    /\ Len(messages) = 3
    /\ messages[2].role = "assistant"
    /\ Len(Wire[2].tool_calls) = 2
    /\ Wire[2].tool_calls[2].id = "call_2"
    /\ Wire[3] = [role |-> "tool", tool_call_id |-> "call_1", content |-> ToolOutput]

\* the text of a message: its text blocks joined by spaces
MessageText(msg) == JoinWith(TextsOf(msg.content), " ")

\* the messages _convert_messages turns into a turn: the tool messages and the
\* user and assistant messages that have text
Turned(msgs) ==
    SelectSeq(msgs, LAMBDA msg : msg.role = "tool"
                                    \/ (msg.role # "system" /\ Strip(MessageText(msg)) # ""))

\* the system text of the request: the text of the last system message
SystemOf(msgs) ==
    LET at == { i \in 1..Len(msgs) : msgs[i].role = "system" }
    IN IF at = {} THEN ""
       ELSE Strip(MessageText(msgs[CHOOSE i \in at : \A j \in at : j <= i]))

(***************************************************************************)
(* C33 as stated: the Anthropic request has one turn per converted         *)
(* message, in Conversation order, and the turn of every tool message is a *)
(* user turn with the text "Tool result for <tool_call_id>: <text>"; the   *)
(* system text is passed separately and no turn has the role system.       *)
(***************************************************************************)
C33_EveryToolLabelled ==
    (api = "anthropic" /\ sent # <<>>) =>
        LET request == sent[Len(sent)]
            turned == Turned(messages)
        IN /\ request.system = SystemOf(messages)
           /\ Len(request.messages) = Len(turned)
           /\ \A i \in 1..Len(turned) :
                  /\ request.messages[i].role # "system"
                  /\ turned[i].role = "tool" =>
                         request.messages[i] =
                             [role |-> "user",
                              content |-> "Tool result for " \o turned[i].tool_call_id
                                              \o ": " \o Strip(MessageText(turned[i]))]
                  /\ turned[i].role # "tool" =>
                         request.messages[i] =
                             [role |-> turned[i].role,
                              content |-> Strip(MessageText(turned[i]))]

(***************************************************************************)
(* C33, amended: as above, with the label only for the tool messages that  *)
(* have a non-empty tool_call_id; the turn of a tool message without id is *)
(* a user turn with the text alone.                                        *)
(***************************************************************************)
C33_InlinedRendering ==
    (api = "anthropic" /\ sent # <<>>) =>
        LET request == sent[Len(sent)]
            turned == Turned(messages)
        IN /\ request.system = SystemOf(messages)
           /\ Len(request.messages) = Len(turned)
           /\ \A i \in 1..Len(turned) :
                  /\ request.messages[i].role # "system"
                  /\ turned[i].role = "tool" =>
                         request.messages[i] =
                             [role |-> "user",
                              content |-> IF turned[i].tool_call_id # ""
                                          THEN "Tool result for " \o turned[i].tool_call_id
                                                   \o ": " \o Strip(MessageText(turned[i]))
                                          ELSE Strip(MessageText(turned[i]))]
                  /\ turned[i].role # "tool" =>
                         request.messages[i] =
                             [role |-> turned[i].role,
                              content |-> Strip(MessageText(turned[i]))]

\* a request is out for the Conversation system, user, tool message of call_1
C33_Witness ==
    /\ api = "anthropic"
    /\ sent # <<>>
    /\ Len(messages) = 3
    /\ messages[1].role = "system"
    /\ messages[3] = ToolMessage("call_1", ToolOutput)
    /\ sent[1].system = "You compute sums."
    /\ sent[1].messages =
           <<[role |-> "user", content |-> "What is 2+3?"],
             [role |-> "user", content |-> "Tool result for call_1: " \o ToolOutput]>>

\* the content.Type the five JSON-schema type names stand for
TypeOf ==
    [t \in {"string", "number", "boolean", "array", "object"} |->
        CASE t = "string" -> "STRING"
          [] t = "number" -> "NUMBER"
          [] t = "boolean" -> "BOOL"
          [] t = "array" -> "ARRAY"
          [] OTHER -> "OBJECT"]

RECURSIVE Carried(_, _)
\* the schema tree g has the types, required names and enum values of the
\* JSON schema p, on every level
Carried(p, g) ==
    /\ g.type \in ContentTypes
    /\ ("type" \in DOMAIN p /\ p.type \in DOMAIN TypeOf) => g.type = TypeOf[p.type]
    /\ g.required = (IF "required" \in DOMAIN p THEN p.required ELSE <<>>)
    /\ g.enum = (IF "enum" \in DOMAIN p THEN p.enum ELSE <<>>)
    /\ IF "properties" \in DOMAIN p
       THEN /\ DOMAIN g.properties = DOMAIN p.properties
            /\ \A n \in DOMAIN p.properties : Carried(p.properties[n], g.properties[n])
       ELSE DOMAIN g.properties = {}
    /\ ("type" \in DOMAIN p /\ p.type = "array" /\ "items" \in DOMAIN p) =>
           /\ g.items # NoItems
           /\ Carried(p.items, g.items)

NextRound == pc = "generate" /\ turnStart > 0

\* the message after the assistant message of the round is a tool message
RoundAnswered == Len(messages) > turnStart /\ messages[turnStart + 1].role = "tool"

RoundCalls == ToolUses(messages[turnStart].content)

\* the ids of the round are pairwise distinct and none was processed before:
\* every call of the response has been submitted
FreshRound ==
    /\ \A j, k \in 1..Len(RoundCalls) : j # k => RoundCalls[j].id # RoundCalls[k].id
    /\ Len(futures) = Len(RoundCalls)

(***************************************************************************)
(* C36: when the tool dispatch of a response with n tool_use blocks of     *)
(* pairwise distinct ids, none processed before, is left (towards the next *)
(* generate call or towards the caller), the Conversation ends with the    *)
(* assistant message of the response followed by exactly n tool messages,  *)
(* the k-th with the id of the k-th block, whether the calls returned,     *)
(* raised or named an unknown tool.                                        *)
(***************************************************************************)
C36_OneReplyPerFreshCall ==
    [][(pc \in {"collect", "unwind"} /\ pc' \notin {"collect", "unwind"} /\ FreshRound) =>
          /\ Len(messages') = turnStart + Len(RoundCalls)
          /\ \A k \in 1..Len(RoundCalls) :
                 /\ messages'[turnStart + k].role = "tool"
                 /\ messages'[turnStart + k].tool_call_id = RoundCalls[k].id]_vars

(***************************************************************************)
(* C37: as long as the MessageHandler has not been reset, every id in the  *)
(* processed-id set is the tool_call_id of a tool message of the           *)
(* Conversation.                                                           *)
(***************************************************************************)
C37_ProcessedAreAnswered ==
    ~wasReset =>
        \A id \in processed_tool_ids :
            \E i \in 1..Len(messages) :
                messages[i].role = "tool" /\ messages[i].tool_call_id = id

(***************************************************************************)
(* C38: a send_user_message call that returns on its first response (no    *)
(* tool round in the call) leaves the Conversation of before the call      *)
(* with exactly one message appended, the user message; the answer         *)
(* returned to the caller is not appended.                                 *)
(***************************************************************************)
C38_AnswerNotRecorded ==
    [][(pc = "generate" /\ pc' = "idle" /\ outcome'.kind = "answer" /\ turnStart = 0) =>
          /\ Len(messages') = Len(callStart) + 1
          /\ SubSeq(messages', 1, Len(callStart)) = callStart
          /\ messages'[Len(messages')].role = "user"
          /\ messages' = messages]_vars

\* a call has returned the answer "hi" and the Conversation holds the user
\* message alone
C38_Witness ==
    /\ pc = "idle"
    /\ outcome = Answer("hi")
    /\ Len(messages) = 1
    /\ messages[1].role = "user"

(***************************************************************************)
(* C39: a set_model call that replaces the adapter changes the adapter and *)
(* empties the processed-id set; the Conversation, the registered          *)
(* functions and the tool declarations are as before, so the tool messages *)
(* answered under the previous adapter are still in the Conversation.      *)
(***************************************************************************)
C39_SetModelFrame ==
    [][api' # api =>
          /\ processed_tool_ids' = {}
          /\ messages' = messages
          /\ registered_functions' = registered_functions
          /\ tools' = tools
          /\ \A id \in processed_tool_ids :
                 Answered(id) =>
                     \E i \in 1..Len(messages') :
                         messages'[i].role = "tool" /\ messages'[i].tool_call_id = id]_vars

\* the adapter has been replaced after a tool round: the tool message of t1 is
\* in the Conversation, the processed-id set is empty, add is still
\* registered and the tools still declared
C39_Witness ==
    /\ api = "B"
    /\ pc = "idle"
    /\ processed_tool_ids = {}
    /\ Answered("t1")
    /\ "add" \in DOMAIN registered_functions
    /\ tools = <<"add">>

\* the ids that were processed before the current tool round
ProcessedBefore == processed_tool_ids \ MarkedInTurn

(***************************************************************************)
(* C40: a step that removes messages from the Conversation (reset) leaves  *)
(* it empty, without the system message, and leaves the adapter, the       *)
(* processed-id set, the registered functions and the tool declarations as *)
(* they were; and in every tool round, also after a reset, no call is      *)
(* dispatched whose id was processed before the round.                     *)
(***************************************************************************)
C40_ResetFrame ==
    /\ [][Len(messages') < Len(messages) =>
             /\ messages' = <<>>
             /\ processed_tool_ids' = processed_tool_ids
             /\ registered_functions' = registered_functions
             /\ tools' = tools
             /\ api' = api]_vars
    /\ [](InTurn => \A k \in 1..Len(futures) : futures[k].id \notin ProcessedBefore)

\* after a reset the adapter has returned t1 again: the Conversation holds no
\* tool message of t1 any more, t1 is still in the processed-id set and no
\* call has been dispatched
C40_Witness ==
    /\ wasReset
    /\ pc = "collect"
    /\ InTurn
    /\ Len(ToolUses(messages[turnStart].content)) = 1
    /\ ToolUses(messages[turnStart].content)[1].id = "t1"
    /\ "t1" \in processed_tool_ids
    /\ ~Answered("t1")
    /\ futures = <<>>
    /\ "add" \in DOMAIN registered_functions

====
